---- MODULE Spec2Model ----
(***************************************************************************)
(* Model of provider-docker's resource lifecycle controllers (container,   *)
(* volume, network): Observe / Create / Update / Delete against a Docker   *)
(* engine, the container config builder and the up-to-date diff.           *)
(*                                                                         *)
(* Conventions                                                             *)
(*   - a Go pointer / optional value is None (<<>>) or Some(v) (<<v>>);    *)
(*   - a Go error is a message, a sequence of words; NoErr (<<>>) is nil;  *)
(*   - environment strings are sequences of one-character strings, so     *)
(*     that "NAME=value" formatting and SplitN parsing are computed;       *)
(*   - a Go map[string]string is a TLA+ function on its key set.           *)
(***************************************************************************)
EXTENDS Integers, Sequences, FiniteSets, TLC

VARIABLES
    cr,        \* the managed resource record the lifecycle operations act on
    engine,    \* the Docker engine: identity -> object, for the objects present
    nextId,    \* number of identities the engine has assigned so far
    last,      \* outcome of the most recent step (operation, error, engine calls)
    prev,      \* summary of the step before it
    diffIn,    \* arguments of the diff function under evaluation
    diffOut,   \* its verdict
    stacks,    \* the stack records, by record name
    records,   \* container records reconciled side by side, by record key
    engineFaults  \* whether engine calls can still fail for transient reasons

vars == <<cr, engine, nextId, last, prev, diffIn, diffOut, stacks, records, engineFaults>>

(* ------------------------------ bounds -------------------------------- *)

\* longest declared / observed environment list
MaxEnv == 2

\* identities the engine can assign in one behaviour
MaxIds == 2

(* ---------------------------- optionals ------------------------------- *)

None == <<>>

Some(v) == <<v>>

Deref(p) == p[1]

(* ----------------------------- strings -------------------------------- *)

\* strings.SplitN(env, "=", 2)
SplitN2(s) ==
    IF \E i \in DOMAIN s : s[i] = "="
    THEN LET i == CHOOSE k \in DOMAIN s : s[k] = "=" /\ \A j \in 1..(k - 1) : s[j] # "="
         IN  <<SubSeq(s, 1, i - 1), SubSeq(s, i + 1, Len(s))>>
    ELSE <<s>>

\* strings.ToLower, word by word
ToLower(msg) ==
    [i \in DOMAIN msg |->
        CASE msg[i] = "No"    -> "no"
          [] msg[i] = "Error" -> "error"
          [] msg[i] = "API"   -> "api"
          [] OTHER            -> msg[i]]

\* strings.Contains, on word sequences
Contains(msg, pat) ==
    \E i \in 1..(Len(msg) - Len(pat) + 1) : SubSeq(msg, i, i + Len(pat) - 1) = pat

(* ------------------------------ errors -------------------------------- *)

NoErr == <<>>

\* errors.Wrap(err, msg): "msg: err"
Wrap(err, msg) == msg \o <<":">> \o err

\* isNotFound without the case folding
isNotFound_CaseSensitive(err) ==
    IF err = NoErr THEN FALSE
    ELSE Contains(err, <<"not", "found">>)
         \/ Contains(err, <<"no", "such", "container">>)

\* container controller: isNotFound
isNotFound(err) ==
    IF err = NoErr THEN FALSE
    ELSE Contains(ToLower(err), <<"not", "found">>)
         \/ Contains(ToLower(err), <<"no", "such", "container">>)

\* isNotFoundError that knows the "not found" wording only
isNotFoundError_NotFoundOnly(err) ==
    IF err = NoErr THEN FALSE
    ELSE Contains(ToLower(err), <<"not", "found">>)

\* volume and network controllers: isNotFoundError
isNotFoundError(err) ==
    IF err = NoErr THEN FALSE
    ELSE Contains(ToLower(err), <<"not", "found">>)
         \/ Contains(ToLower(err), <<"no", "such">>)
         \/ Contains(ToLower(err), <<"404">>)

(* --------------------------- container diff --------------------------- *)

\* the map isEnvironmentUpToDate builds from the observed "NAME=value" list;
\* a later entry overwrites an earlier one with the same name
actualEnvMap(actualEnv) ==
    LET key(e) == SplitN2(e)[1]
        val(e) == IF Len(SplitN2(e)) = 2 THEN SplitN2(e)[2] ELSE <<>>
        lastOf(n) == CHOOSE i \in DOMAIN actualEnv :
                        /\ key(actualEnv[i]) = n
                        /\ \A j \in DOMAIN actualEnv : key(actualEnv[j]) = n => j <= i
    IN  [n \in {key(actualEnv[i]) : i \in DOMAIN actualEnv} |-> val(actualEnv[lastOf(n)])]

isEnvironmentUpToDate(expectedEnv, actualEnv) ==
    LET m == actualEnvMap(actualEnv)
    IN  \A i \in DOMAIN expectedEnv :
            LET envVar == expectedEnv[i]
            IN  IF envVar.Value # None
                THEN envVar.Name \in DOMAIN m /\ m[envVar.Name] = Deref(envVar.Value)
                ELSE TRUE   \* valueFrom, or neither: skipped

\* a nil Go map reads as the empty map
MapOf(m) == IF m = None THEN <<>> ELSE Deref(m)

isLabelsUpToDate(expectedLabels, actualLabels) ==
    IF expectedLabels = None /\ actualLabels = None THEN TRUE
    ELSE \A key \in DOMAIN MapOf(expectedLabels) :
            /\ key \in DOMAIN MapOf(actualLabels)
            /\ MapOf(actualLabels)[key] = MapOf(expectedLabels)[key]

\* the diff without its image rule
isUpToDate_NoImageCheck(spec, info) ==
    IF spec.RestartPolicy # None /\ info.HostConfig = None THEN FALSE
    ELSE IF spec.RestartPolicy # None
            /\ Deref(spec.RestartPolicy) # Deref(info.HostConfig).RestartPolicy.Name THEN FALSE
    ELSE IF spec.RestartPolicy # None
            /\ Deref(spec.RestartPolicy) = "on-failure"
            /\ spec.MaximumRetryCount # None
            /\ Deref(info.HostConfig).RestartPolicy.MaximumRetryCount
                  # Deref(spec.MaximumRetryCount) THEN FALSE
    ELSE IF ~isEnvironmentUpToDate(spec.Environment, info.Config.Env) THEN FALSE
    ELSE IF ~isLabelsUpToDate(spec.Labels, info.Config.Labels) THEN FALSE
    ELSE IF spec.Privileged # None /\ info.HostConfig = None THEN FALSE
    ELSE IF spec.Privileged # None
            /\ Deref(info.HostConfig).Privileged # Deref(spec.Privileged) THEN FALSE
    ELSE IF info.State # None
            /\ Deref(info.State).Health # None
            /\ Deref(Deref(info.State).Health) = "unhealthy" THEN FALSE
    ELSE TRUE

\* a diff that also wants the container running
isUpToDate_RequiresRunning(spec, info) ==
    IF info.Config.Image # spec.Image THEN FALSE
    ELSE IF spec.RestartPolicy # None /\ info.HostConfig = None THEN FALSE
    ELSE IF spec.RestartPolicy # None
            /\ Deref(spec.RestartPolicy) # Deref(info.HostConfig).RestartPolicy.Name THEN FALSE
    ELSE IF spec.RestartPolicy # None
            /\ Deref(spec.RestartPolicy) = "on-failure"
            /\ spec.MaximumRetryCount # None
            /\ Deref(info.HostConfig).RestartPolicy.MaximumRetryCount
                  # Deref(spec.MaximumRetryCount) THEN FALSE
    ELSE IF ~isEnvironmentUpToDate(spec.Environment, info.Config.Env) THEN FALSE
    ELSE IF ~isLabelsUpToDate(spec.Labels, info.Config.Labels) THEN FALSE
    ELSE IF spec.Privileged # None /\ info.HostConfig = None THEN FALSE
    ELSE IF spec.Privileged # None
            /\ Deref(info.HostConfig).Privileged # Deref(spec.Privileged) THEN FALSE
    ELSE IF info.State # None
            /\ Deref(info.State).Health # None
            /\ Deref(Deref(info.State).Health) = "unhealthy" THEN FALSE
    ELSE IF info.State # None /\ ~Deref(info.State).Running THEN FALSE
    ELSE TRUE

\* the diff without its health rule
isUpToDate_NoHealthCheck(spec, info) ==
    IF info.Config.Image # spec.Image THEN FALSE
    ELSE IF spec.RestartPolicy # None /\ info.HostConfig = None THEN FALSE
    ELSE IF spec.RestartPolicy # None
            /\ Deref(spec.RestartPolicy) # Deref(info.HostConfig).RestartPolicy.Name THEN FALSE
    ELSE IF spec.RestartPolicy # None
            /\ Deref(spec.RestartPolicy) = "on-failure"
            /\ spec.MaximumRetryCount # None
            /\ Deref(info.HostConfig).RestartPolicy.MaximumRetryCount
                  # Deref(spec.MaximumRetryCount) THEN FALSE
    ELSE IF ~isEnvironmentUpToDate(spec.Environment, info.Config.Env) THEN FALSE
    ELSE IF ~isLabelsUpToDate(spec.Labels, info.Config.Labels) THEN FALSE
    ELSE IF spec.Privileged # None /\ info.HostConfig = None THEN FALSE
    ELSE IF spec.Privileged # None
            /\ Deref(info.HostConfig).Privileged # Deref(spec.Privileged) THEN FALSE
    ELSE TRUE

\* external.isUpToDate
isUpToDate(spec, info) ==
    IF info.Config.Image # spec.Image THEN FALSE
    ELSE IF spec.RestartPolicy # None /\ info.HostConfig = None THEN FALSE
    ELSE IF spec.RestartPolicy # None
            /\ Deref(spec.RestartPolicy) # Deref(info.HostConfig).RestartPolicy.Name THEN FALSE
    ELSE IF spec.RestartPolicy # None
            /\ Deref(spec.RestartPolicy) = "on-failure"
            /\ spec.MaximumRetryCount # None
            /\ Deref(info.HostConfig).RestartPolicy.MaximumRetryCount
                  # Deref(spec.MaximumRetryCount) THEN FALSE
    ELSE IF ~isEnvironmentUpToDate(spec.Environment, info.Config.Env) THEN FALSE
    ELSE IF ~isLabelsUpToDate(spec.Labels, info.Config.Labels) THEN FALSE
    ELSE IF spec.Privileged # None /\ info.HostConfig = None THEN FALSE
    ELSE IF spec.Privileged # None
            /\ Deref(info.HostConfig).Privileged # Deref(spec.Privileged) THEN FALSE
    ELSE IF info.State # None
            /\ Deref(info.State).Health # None
            /\ Deref(Deref(info.State).Health) = "unhealthy" THEN FALSE
    ELSE TRUE

(* ------------------------- container config builder ------------------- *)

\* strconv.Itoa, as a digit sequence
RECURSIVE Itoa(_)
Itoa(n) ==
    LET digit(d) == CASE d = 0 -> "0" [] d = 1 -> "1" [] d = 2 -> "2" [] d = 3 -> "3"
                      [] d = 4 -> "4" [] d = 5 -> "5" [] d = 6 -> "6" [] d = 7 -> "7"
                      [] d = 8 -> "8" [] d = 9 -> "9"
    IN  IF n < 10 THEN <<digit(n)>> ELSE Itoa(n \div 10) \o <<digit(n % 10)>>

\* strings.ToLower on a protocol name
LowerProto(p) ==
    CASE p = "TCP" -> "tcp" [] p = "UDP" -> "udp" [] p = "SCTP" -> "sctp" [] OTHER -> p

\* the Docker port key "<containerPort>/<protocol>"
DockerPort(portSpec) ==
    [port  |-> portSpec.ContainerPort,
     proto |-> IF portSpec.Protocol # None THEN LowerProto(Deref(portSpec.Protocol)) ELSE "tcp"]

buildPortConfiguration(ports) ==
    LET bound == {i \in DOMAIN ports : ports[i].HostPort # None}
        lastOf(dp) == CHOOSE i \in bound :
                         /\ DockerPort(ports[i]) = dp
                         /\ \A j \in bound : DockerPort(ports[j]) = dp => j <= i
    IN  [err          |-> NoErr,
         exposedPorts |-> {DockerPort(ports[i]) : i \in DOMAIN ports},
         portBindings |-> [dp \in {DockerPort(ports[i]) : i \in bound} |->
                              <<[HostIP   |-> IF ports[lastOf(dp)].HostIP # None
                                              THEN Deref(ports[lastOf(dp)].HostIP) ELSE "",
                                 HostPort |-> Itoa(Deref(ports[lastOf(dp)].HostPort))]>>]]

\* resolveEnvVarValue: every source is unimplemented and yields an error
resolveEnvVarValue(valueFrom) ==
    IF valueFrom.ConfigMapKeyRef
    THEN <<"ConfigMap", "valueFrom", "not", "yet", "implemented">>
    ELSE IF valueFrom.SecretKeyRef
    THEN <<"Secret", "valueFrom", "not", "yet", "implemented">>
    ELSE <<"unknown", "valueFrom", "source">>

isEnvVarOptional(valueFrom) ==
    IF (valueFrom.ConfigMapKeyRef \/ valueFrom.SecretKeyRef) /\ valueFrom.Optional # None
    THEN Deref(valueFrom.Optional)
    ELSE FALSE

\* one entry's contribution: an error, nothing (skipped), or "NAME=value"
RECURSIVE buildEnvironmentConfiguration(_)
buildEnvironmentConfiguration(envVars) ==
    IF envVars = <<>> THEN [err |-> NoErr, env |-> <<>>]
    ELSE LET envVar == Head(envVars)
             rest   == buildEnvironmentConfiguration(Tail(envVars))
         IN  IF envVar.Value # None
             THEN IF rest.err # NoErr THEN rest
                  ELSE [err |-> NoErr,
                        env |-> <<envVar.Name \o <<"=">> \o Deref(envVar.Value)>> \o rest.env]
             ELSE IF envVar.ValueFrom # None
             THEN LET e == resolveEnvVarValue(Deref(envVar.ValueFrom))
                  IN  IF isEnvVarOptional(Deref(envVar.ValueFrom)) /\ isNotFound(e)
                      THEN rest
                      ELSE [err |-> Wrap(e, <<"cannot", "resolve", "value">>), env |-> <<>>]
             ELSE [err |-> <<"environment", "variable", "has", "no", "value">>, env |-> <<>>]

\* a health-check build that accepts an empty test command
buildHealthCheckConfiguration_NoValidation(healthCheck) ==
    IF healthCheck = None THEN [err |-> NoErr, healthcheck |-> None]
    ELSE [err |-> NoErr, healthcheck |-> Some([Test |-> Deref(healthCheck).Test])]

\* buildHealthCheckConfiguration: the request's health check, or an error
buildHealthCheckConfiguration(healthCheck) ==
    IF healthCheck = None THEN [err |-> NoErr, healthcheck |-> None]
    ELSE IF Len(Deref(healthCheck).Test) = 0
    THEN [err |-> <<"health", "check", "test", "command", "is", "required">>, healthcheck |-> None]
    ELSE [err |-> NoErr, healthcheck |-> Some([Test |-> Deref(healthCheck).Test])]

\* size strings are sequences of characters
Digits == {"0", "1", "2", "3", "4", "5", "6", "7", "8", "9"}

DigitVal(c) ==
    CASE c = "0" -> 0 [] c = "1" -> 1 [] c = "2" -> 2 [] c = "3" -> 3 [] c = "4" -> 4
      [] c = "5" -> 5 [] c = "6" -> 6 [] c = "7" -> 7 [] c = "8" -> 8 [] c = "9" -> 9

\* the value of a digit string
RECURSIVE DecimalValue(_)
DecimalValue(ds) ==
    IF ds = <<>> THEN 0
    ELSE 10 * DecimalValue(SubSeq(ds, 1, Len(ds) - 1)) + DigitVal(ds[Len(ds)])

\* strconv.ParseInt(s, 10, 64) on a string short enough to stay in range: an
\* optional sign and at least one digit, anything else is a syntax error
ParseInt(s) ==
    LET signed == Len(s) > 0 /\ s[1] \in {"+", "-"}
        ds     == IF signed THEN Tail(s) ELSE s
    IN  IF Len(ds) = 0 \/ \E i \in DOMAIN ds : ds[i] \notin Digits
        THEN [val |-> 0, err |-> <<"strconv.ParseInt", ":", "invalid", "syntax">>]
        ELSE [val |-> IF signed /\ s[1] = "-" THEN 0 - DecimalValue(ds) ELSE DecimalValue(ds),
              err |-> NoErr]

\* strings.HasSuffix
HasSuffix(s, suffix) ==
    Len(s) >= Len(suffix) /\ SubSeq(s, Len(s) - Len(suffix) + 1, Len(s)) = suffix

\* strings.TrimSuffix
TrimSuffix(s, suffix) ==
    IF HasSuffix(s, suffix) THEN SubSeq(s, 1, Len(s) - Len(suffix)) ELSE s

\* parseByteSize: "100Mi", "1Gi" or a plain integer, in bytes
parseByteSize(sizeStr) ==
    IF HasSuffix(sizeStr, <<"M", "i">>)
    THEN LET p == ParseInt(TrimSuffix(sizeStr, <<"M", "i">>))
         IN  IF p.err # NoErr THEN [val |-> 0, err |-> p.err]
             ELSE [val |-> p.val * 1024 * 1024, err |-> NoErr]
    ELSE IF HasSuffix(sizeStr, <<"G", "i">>)
    THEN LET p == ParseInt(TrimSuffix(sizeStr, <<"G", "i">>))
         IN  IF p.err # NoErr THEN [val |-> 0, err |-> p.err]
             ELSE [val |-> p.val * 1024 * 1024 * 1024, err |-> NoErr]
    ELSE ParseInt(sizeStr)

\* buildVolumeConfiguration: the binds and mounts of the request; the first
\* volume without a supported source is an error; the error of parseByteSize
\* is assigned to the blank identifier
RECURSIVE buildVolumeConfiguration(_)
buildVolumeConfiguration(volumes) ==
    IF volumes = <<>> THEN [err |-> NoErr, binds |-> <<>>, mounts |-> <<>>]
    ELSE LET volumeSpec == Head(volumes)
             source     == volumeSpec.VolumeSource
             readOnly   == IF volumeSpec.ReadOnly # None THEN Deref(volumeSpec.ReadOnly) ELSE FALSE
             rest       == buildVolumeConfiguration(Tail(volumes))
             size       == parseByteSize(Deref(Deref(source.EmptyDir).SizeLimit))
         IN  IF source.HostPath # None
             THEN IF rest.err # NoErr THEN rest
                  ELSE [rest EXCEPT !.binds =
                           <<<<Deref(source.HostPath).Path, ":", volumeSpec.MountPath>>
                             \o (IF readOnly THEN <<":ro">> ELSE <<>>)>> \o rest.binds]
             ELSE IF source.Volume # None
             THEN IF rest.err # NoErr THEN rest
                  ELSE [rest EXCEPT !.mounts =
                           <<[Type |-> "volume", Source |-> Deref(source.Volume).VolumeName,
                              Target |-> volumeSpec.MountPath, ReadOnly |-> readOnly,
                              TmpfsOptions |-> None]>> \o rest.mounts]
             ELSE IF source.Bind # None
             THEN IF rest.err # NoErr THEN rest
                  ELSE [rest EXCEPT !.mounts =
                           <<[Type |-> "bind", Source |-> Deref(source.Bind).SourcePath,
                              Target |-> volumeSpec.MountPath, ReadOnly |-> readOnly,
                              BindOptions |->
                                  IF Deref(source.Bind).Propagation # None
                                     /\ Deref(Deref(source.Bind).Propagation) \in
                                           {"private", "rprivate", "shared", "rshared",
                                            "slave", "rslave"}
                                  THEN Some([Propagation |->
                                                Deref(Deref(source.Bind).Propagation)])
                                  ELSE None]>> \o rest.mounts]
             ELSE IF source.EmptyDir # None
             THEN IF rest.err # NoErr THEN rest
                  ELSE [rest EXCEPT !.mounts =
                           <<[Type |-> "tmpfs", Source |-> "",
                              Target |-> volumeSpec.MountPath, ReadOnly |-> readOnly,
                              TmpfsOptions |->
                                  IF Deref(source.EmptyDir).SizeLimit # None
                                  THEN Some([SizeBytes |-> size.val])
                                  ELSE None]>> \o rest.mounts]
             ELSE IF source.Secret \/ source.ConfigMap
             THEN rest
             ELSE [err |-> <<"unsupported", "volume", "source", "type", "for", "volume",
                             volumeSpec.Name>>,
                   binds |-> <<>>, mounts |-> <<>>]

\* BuildContainerConfig: the engine creation request, or an error
BuildContainerConfig(spec) ==
    LET envR    == IF Len(spec.Environment) > 0
                   THEN buildEnvironmentConfiguration(spec.Environment)
                   ELSE [err |-> NoErr, env |-> <<>>]
        portR   == buildPortConfiguration(spec.Ports)
        volumeR == buildVolumeConfiguration(spec.Volumes)
        healthR == buildHealthCheckConfiguration(spec.HealthCheck)
        config  == [Image        |-> spec.Image,
                    Env          |-> envR.env,
                    Labels       |-> IF spec.Labels # None /\ DOMAIN Deref(spec.Labels) # {}
                                     THEN spec.Labels ELSE None,
                    ExposedPorts |-> portR.exposedPorts,
                    Healthcheck  |-> healthR.healthcheck]
        hostConfig == [PortBindings  |-> portR.portBindings,
                       RestartPolicy |->
                           IF spec.RestartPolicy # None
                           THEN [Name |-> Deref(spec.RestartPolicy),
                                 MaximumRetryCount |->
                                     IF spec.MaximumRetryCount # None
                                     THEN Deref(spec.MaximumRetryCount) ELSE 0]
                           ELSE [Name |-> "", MaximumRetryCount |-> 0],
                       Binds         |-> volumeR.binds,
                       Mounts        |-> volumeR.mounts,
                       Privileged    |-> FALSE]
    IN  IF envR.err # NoErr
        THEN [err |-> Wrap(envR.err, <<"cannot", "build", "environment", "configuration">>)]
        ELSE IF portR.err # NoErr
        THEN [err |-> Wrap(portR.err, <<"cannot", "build", "port", "configuration">>)]
        ELSE IF volumeR.err # NoErr
        THEN [err |-> Wrap(volumeR.err, <<"cannot", "build", "volume", "configuration">>)]
        ELSE IF healthR.err # NoErr
        THEN [err |-> Wrap(healthR.err, <<"cannot", "build", "health", "check", "configuration">>)]
        ELSE [err |-> NoErr, config |-> config, hostConfig |-> hostConfig]

(* ------------------------------ the engine ---------------------------- *)

\* the identity the engine assigns to the n-th object it creates
IdOf(n) ==
    CASE n = 1 -> "id1" [] n = 2 -> "id2" [] n = 3 -> "id3" [] n = 4 -> "id4"
      [] n = 5 -> "id5" [] n = 6 -> "id6" [] n = 7 -> "id7" [] OTHER -> "id8"

\* errors of an engine call that have nothing to do with the object's absence
TransientErrs == {<<"API", "error">>}

\* what the engine answers when the object named by id is absent: the daemon's
\* message for the kind, or the client package's NotFoundError
NotFoundErrs(kind, id) ==
    CASE kind = "container" -> {<<"No", "such", "container", ":", id>>,
                                <<"container", id, "not", "found">>}
      [] kind = "volume"    -> {<<"get", id, ":", "no", "such", "volume">>,
                                <<"volume", id, "not", "found">>}
      [] kind = "network"   -> {<<"network", id, "not", "found">>,
                                <<"No", "such", "network", ":", id>>}

ConflictErr == <<"Conflict", ":", "name", "already", "in", "use">>

Present(eng, kind, id) == id \in DOMAIN eng /\ eng[id].kind = kind

\* outcomes of inspect / stop / remove on the object named by id
ByIdOutcomes(eng, kind, id) ==
    IF Present(eng, kind, id) THEN {NoErr} \cup TransientErrs
    ELSE NotFoundErrs(kind, id) \cup TransientErrs

\* outcomes of a call that makes a new object
NewObjectOutcomes(eng, n, kind, name) ==
    IF name # "" /\ \E id \in DOMAIN eng : eng[id].kind = kind /\ eng[id].Name = name
    THEN {ConflictErr} \cup TransientErrs
    ELSE IF n < MaxIds THEN {NoErr} \cup TransientErrs
    ELSE TransientErrs

Without(eng, id) == [i \in DOMAIN eng \ {id} |-> eng[i]]

With(eng, id, obj) == [i \in DOMAIN eng \cup {id} |-> IF i = id THEN obj ELSE eng[i]]

\* ContainerCreate: the engine keeps the configuration it is given
EngineContainerCreate(eng, id, config, hostConfig, name) ==
    With(eng, id, [kind       |-> "container",
                   ID         |-> id,
                   Name       |-> name,
                   Config     |-> config,
                   HostConfig |-> hostConfig,
                   State      |-> [Status |-> "created", Running |-> FALSE, Health |-> None]])

EngineContainerStart(eng, id) ==
    [eng EXCEPT ![id].State =
        [Status  |-> "running", Running |-> TRUE,
         Health  |-> IF eng[id].Config.Healthcheck # None THEN Some("starting") ELSE None]]

EngineContainerStop(eng, id) ==
    IF eng[id].State.Running
    THEN [eng EXCEPT ![id].State.Status = "exited", ![id].State.Running = FALSE]
    ELSE eng

\* ContainerInspect on a present container
EngineContainerInspect(eng, id) ==
    [ID         |-> eng[id].ID,
     Name       |-> eng[id].Name,
     Config     |-> eng[id].Config,
     HostConfig |-> Some(eng[id].HostConfig),
     State      |-> Some(eng[id].State),
     Ports      |-> eng[id].HostConfig.PortBindings]

(* ------------------------ the managed resource ------------------------ *)

AnnotationKeyExternalName == "crossplane.io/external-name"

\* cr.GetAnnotations()[AnnotationKeyExternalName] / meta.GetExternalName
GetExternalName(r) ==
    IF AnnotationKeyExternalName \in DOMAIN MapOf(r.annotations)
    THEN MapOf(r.annotations)[AnnotationKeyExternalName]
    ELSE ""

\* annotations[AnnotationKeyExternalName] = id / meta.SetExternalName
SetExternalName(r, id) ==
    [r EXCEPT !.annotations =
        Some([k \in DOMAIN MapOf(r.annotations) \cup {AnnotationKeyExternalName} |->
                 IF k = AnnotationKeyExternalName THEN id ELSE MapOf(r.annotations)[k]])]

(* ------------------------ container controller ------------------------ *)

\* seconds ContainerStop waits before the engine kills the container
StopTimeout == 10

Call(name, id, arg, res) == [call |-> name, id |-> id, arg |-> arg, res |-> res]

\* updateStatus: observation and condition are rebuilt from the inspect result
updateStatus(r, info) ==
    [r EXCEPT
        !.atProvider = [ID    |-> info.ID,
                        Name  |-> info.Name,
                        State |-> Deref(info.State),
                        Image |-> info.Config.Image,
                        Ports |-> info.Ports],
        !.condition  = IF Deref(info.State).Running
                       THEN <<"Available">>
                       ELSE <<"Unavailable", "Container is", Deref(info.State).Status>>]

\* external.Observe; res is the outcome of the inspect call, if one is made
containerObserve(r, eng, res) ==
    LET containerID == GetExternalName(r)
        inspect     == Call("ContainerInspect", containerID, <<>>, res)
        info        == EngineContainerInspect(eng, containerID)
    IN  IF containerID = ""
        THEN [cr |-> r, err |-> NoErr, exists |-> FALSE, upToDate |-> FALSE, calls |-> <<>>]
        ELSE IF res # NoErr
        THEN IF isNotFound(res)
             THEN [cr |-> r, err |-> NoErr, exists |-> FALSE, upToDate |-> FALSE,
                   calls |-> <<inspect>>]
             ELSE [cr |-> r, err |-> Wrap(res, <<"cannot", "inspect", "container">>),
                   exists |-> FALSE, upToDate |-> FALSE, calls |-> <<inspect>>]
        ELSE [cr |-> updateStatus(r, info), err |-> NoErr, exists |-> TRUE,
              upToDate |-> isUpToDate(r.spec, info), calls |-> <<inspect>>]

\* a Create that, when the declared name is in use, removes the container
\* holding it and creates its own
containerCreate_ReplacesExisting(r, eng, n, createRes, startRes) ==
    LET built         == BuildContainerConfig(r.spec)
        containerName == IF r.spec.Name # None THEN Deref(r.spec.Name) ELSE ""
        id            == IdOf(n + 1)
        holders       == {x \in DOMAIN eng : containerName # "" /\ eng[x].Name = containerName}
        cleared       == [x \in DOMAIN eng \ holders |-> eng[x]]
        create        == Call("ContainerCreate", id, <<containerName>>, NoErr)
        start         == Call("ContainerStart", id, <<>>, startRes)
        created       == EngineContainerCreate(cleared, id, built.config, built.hostConfig,
                                               containerName)
        startWanted   == r.spec.StartOnCreate = None \/ Deref(r.spec.StartOnCreate)
    IN  IF built.err # NoErr
        THEN [cr |-> r, engine |-> eng, nextId |-> n,
              err |-> Wrap(built.err, <<"cannot", "build", "container", "configuration">>),
              calls |-> <<>>]
        ELSE IF createRes # NoErr /\ createRes # ConflictErr
        THEN [cr |-> r, engine |-> eng, nextId |-> n,
              err |-> Wrap(createRes, <<"cannot", "create", "container">>),
              calls |-> <<create>>]
        ELSE IF startWanted /\ startRes # NoErr
        THEN [cr |-> r, engine |-> created, nextId |-> n + 1,
              err |-> Wrap(startRes, <<"cannot", "start", "container">>),
              calls |-> <<create, start>>]
        ELSE [cr |-> SetExternalName(r, id),
              engine |-> IF startWanted THEN EngineContainerStart(created, id) ELSE created,
              nextId |-> n + 1, err |-> NoErr,
              calls |-> IF startWanted THEN <<create, start>> ELSE <<create>>]

\* external.Create; createRes and startRes are the outcomes of the engine calls
containerCreate(r, eng, n, createRes, startRes) ==
    LET built         == BuildContainerConfig(r.spec)
        containerName == IF r.spec.Name # None THEN Deref(r.spec.Name) ELSE ""
        id            == IdOf(n + 1)
        create        == Call("ContainerCreate", IF createRes = NoErr THEN id ELSE "",
                              <<containerName>>, createRes)
        start         == Call("ContainerStart", id, <<>>, startRes)
        created       == EngineContainerCreate(eng, id, built.config, built.hostConfig,
                                               containerName)
        startWanted   == r.spec.StartOnCreate = None \/ Deref(r.spec.StartOnCreate)
    IN  IF built.err # NoErr
        THEN [cr |-> r, engine |-> eng, nextId |-> n,
              err |-> Wrap(built.err, <<"cannot", "build", "container", "configuration">>),
              calls |-> <<>>]
        ELSE IF createRes # NoErr
        THEN [cr |-> r, engine |-> eng, nextId |-> n,
              err |-> Wrap(createRes, <<"cannot", "create", "container">>),
              calls |-> <<create>>]
        ELSE IF startWanted /\ startRes # NoErr
        THEN [cr |-> r, engine |-> created, nextId |-> n + 1,
              err |-> Wrap(startRes, <<"cannot", "start", "container">>),
              calls |-> <<create, start>>]
        ELSE [cr |-> SetExternalName(r, id),
              engine |-> IF startWanted THEN EngineContainerStart(created, id) ELSE created,
              nextId |-> n + 1, err |-> NoErr,
              calls |-> IF startWanted THEN <<create, start>> ELSE <<create>>]

\* an Update that silently does nothing, as the volume and network ones do
containerUpdate_NoOp(r, eng) == [cr |-> r, engine |-> eng, err |-> NoErr, calls |-> <<>>]

\* external.Update
containerUpdate(r, eng) ==
    [cr |-> r, engine |-> eng,
     err |-> <<"container", "update", "is", "not", "implemented">>, calls |-> <<>>]

\* a Delete that goes on to remove whatever the stop call answered
containerDelete_RemoveAnyway(r, eng, stopRes, removeRes) ==
    LET containerID == GetExternalName(r)
        stop        == Call("ContainerStop", containerID, <<StopTimeout>>, stopRes)
        remove      == Call("ContainerRemove", containerID, <<"force">>, removeRes)
        stopped     == IF stopRes = NoErr THEN EngineContainerStop(eng, containerID) ELSE eng
        removed     == IF removeRes = NoErr THEN Without(stopped, containerID) ELSE stopped
    IN  IF containerID = ""
        THEN [cr |-> r, engine |-> eng, err |-> NoErr, calls |-> <<>>]
        ELSE IF removeRes # NoErr /\ ~isNotFound(removeRes)
        THEN [cr |-> r, engine |-> removed,
              err |-> Wrap(removeRes, <<"cannot", "delete", "container">>),
              calls |-> <<stop, remove>>]
        ELSE [cr |-> r, engine |-> removed, err |-> NoErr, calls |-> <<stop, remove>>]

\* external.Delete; stopRes and removeRes are the outcomes of the engine calls
containerDelete(r, eng, stopRes, removeRes) ==
    LET containerID == GetExternalName(r)
        stop        == Call("ContainerStop", containerID, <<StopTimeout>>, stopRes)
        remove      == Call("ContainerRemove", containerID, <<"force">>, removeRes)
        stopped     == IF stopRes = NoErr THEN EngineContainerStop(eng, containerID) ELSE eng
        removed     == IF removeRes = NoErr THEN Without(stopped, containerID) ELSE stopped
    IN  IF containerID = ""
        THEN [cr |-> r, engine |-> eng, err |-> NoErr, calls |-> <<>>]
        ELSE IF stopRes # NoErr /\ ~isNotFound(stopRes)
        THEN [cr |-> r, engine |-> stopped,
              err |-> Wrap(stopRes, <<"cannot", "stop", "container">>), calls |-> <<stop>>]
        ELSE IF removeRes # NoErr /\ ~isNotFound(removeRes)
        THEN [cr |-> r, engine |-> removed,
              err |-> Wrap(removeRes, <<"cannot", "delete", "container">>),
              calls |-> <<stop, remove>>]
        ELSE [cr |-> r, engine |-> removed, err |-> NoErr, calls |-> <<stop, remove>>]

(* ------------------- volume and network controllers ------------------- *)

getStringValue(s, defaultValue) == IF s = None THEN defaultValue ELSE Deref(s)

getBoolValue(b, defaultValue) == IF b = None THEN defaultValue ELSE Deref(b)

\* mapsEqual: equal sizes, and every entry of a read back from b (a missing
\* key of b reads as the empty string)
mapsEqual(a, b) ==
    IF Cardinality(DOMAIN MapOf(a)) # Cardinality(DOMAIN MapOf(b)) THEN FALSE
    ELSE \A k \in DOMAIN MapOf(a) :
            (IF k \in DOMAIN MapOf(b) THEN MapOf(b)[k] ELSE "") = MapOf(a)[k]

\* volume controller: buildCreateOptions
volumeBuildCreateOptions(r) ==
    [Driver |-> getStringValue(r.spec.Driver, "local"),
     Labels |-> r.spec.Labels,
     Name   |-> IF r.spec.Name # None THEN Deref(r.spec.Name) ELSE r.name]

\* VolumeCreate: creating a name that exists returns the existing volume
EngineVolumeCreate(eng, opts) ==
    IF opts.Name \in DOMAIN eng THEN eng
    ELSE With(eng, opts.Name, [kind |-> "volume", Name |-> opts.Name,
                               Driver |-> opts.Driver, Labels |-> opts.Labels])

\* volume controller: updateStatus
volumeUpdateStatus(r, vol) ==
    [r EXCEPT !.atProvider = [Name |-> vol.Name, Driver |-> vol.Driver, Labels |-> vol.Labels],
              !.condition  = <<"Available">>]

\* volume controller: isUpToDate
volumeIsUpToDate(r, vol) ==
    IF vol.Driver # getStringValue(r.spec.Driver, "local") THEN FALSE
    ELSE IF ~mapsEqual(vol.Labels, r.spec.Labels) THEN FALSE
    ELSE TRUE

\* volume controller: Observe
volumeObserve(r, eng, res) ==
    LET volumeName == GetExternalName(r)
        inspect    == Call("VolumeInspect", volumeName, <<>>, res)
    IN  IF volumeName = ""
        THEN [cr |-> r, err |-> NoErr, exists |-> FALSE, upToDate |-> FALSE, calls |-> <<>>]
        ELSE IF res # NoErr
        THEN IF isNotFoundError(res)
             THEN [cr |-> r, err |-> NoErr, exists |-> FALSE, upToDate |-> FALSE,
                   calls |-> <<inspect>>]
             ELSE [cr |-> r, err |-> Wrap(res, <<"cannot", "inspect", "volume">>),
                   exists |-> FALSE, upToDate |-> FALSE, calls |-> <<inspect>>]
        ELSE [cr |-> volumeUpdateStatus(r, eng[volumeName]), err |-> NoErr, exists |-> TRUE,
              upToDate |-> volumeIsUpToDate(r, eng[volumeName]), calls |-> <<inspect>>]

\* volume controller: Create
volumeCreate(r, eng, createRes) ==
    LET opts    == volumeBuildCreateOptions(r)
        create  == Call("VolumeCreate", opts.Name, <<opts.Driver>>, createRes)
        created == EngineVolumeCreate(eng, opts)
    IN  IF createRes # NoErr
        THEN [cr |-> r, engine |-> eng,
              err |-> Wrap(createRes, <<"cannot", "create", "volume">>), calls |-> <<create>>]
        ELSE [cr |-> volumeUpdateStatus(SetExternalName(r, opts.Name), created[opts.Name]),
              engine |-> created, err |-> NoErr, calls |-> <<create>>]

\* an Update that resolves drift by removing the volume for re-creation
volumeUpdate_Recreates(r, eng) ==
    [cr |-> r, engine |-> Without(eng, GetExternalName(r)), err |-> NoErr,
     calls |-> <<Call("VolumeRemove", GetExternalName(r), <<"force">>, NoErr)>>]

\* volume controller: Update
volumeUpdate(r, eng) == [cr |-> r, engine |-> eng, err |-> NoErr, calls |-> <<>>]

\* volume controller: Delete
volumeDelete(r, eng, removeRes) ==
    LET volumeName == GetExternalName(r)
        remove     == Call("VolumeRemove", volumeName, <<"force">>, removeRes)
        removed    == IF removeRes = NoErr THEN Without(eng, volumeName) ELSE eng
    IN  IF volumeName = ""
        THEN [cr |-> r, engine |-> eng, err |-> NoErr, calls |-> <<>>]
        ELSE IF removeRes # NoErr /\ ~isNotFoundError(removeRes)
        THEN [cr |-> r, engine |-> removed,
              err |-> Wrap(removeRes, <<"cannot", "remove", "volume">>), calls |-> <<remove>>]
        ELSE [cr |-> r, engine |-> removed, err |-> NoErr, calls |-> <<remove>>]

\* network controller: buildCreateOptions
networkBuildCreateOptions(r) ==
    [Name       |-> IF r.spec.Name # None THEN Deref(r.spec.Name) ELSE r.name,
     Driver     |-> getStringValue(r.spec.Driver, "bridge"),
     Internal   |-> getBoolValue(r.spec.Internal, FALSE),
     Attachable |-> getBoolValue(r.spec.Attachable, FALSE),
     EnableIPv6 |-> getBoolValue(r.spec.EnableIPv6, FALSE),
     Labels     |-> r.spec.Labels]

EngineNetworkCreate(eng, id, opts) ==
    With(eng, id, [kind |-> "network", ID |-> id, Name |-> opts.Name, Driver |-> opts.Driver,
                   Internal |-> opts.Internal, Attachable |-> opts.Attachable,
                   EnableIPv6 |-> opts.EnableIPv6, Labels |-> opts.Labels])

\* network controller: updateStatus
networkUpdateStatus(r, netInspect) ==
    [r EXCEPT !.atProvider = [ID |-> netInspect.ID, Name |-> netInspect.Name,
                              Driver |-> netInspect.Driver, Internal |-> netInspect.Internal,
                              Attachable |-> netInspect.Attachable,
                              EnableIPv6 |-> netInspect.EnableIPv6,
                              Labels |-> netInspect.Labels],
              !.condition  = <<"Available">>]

\* network controller: isUpToDate
networkIsUpToDate(r, netInspect) ==
    IF netInspect.Driver # getStringValue(r.spec.Driver, "bridge") THEN FALSE
    ELSE IF netInspect.Internal # getBoolValue(r.spec.Internal, FALSE) THEN FALSE
    ELSE IF netInspect.Attachable # getBoolValue(r.spec.Attachable, FALSE) THEN FALSE
    ELSE IF netInspect.EnableIPv6 # getBoolValue(r.spec.EnableIPv6, FALSE) THEN FALSE
    ELSE IF ~mapsEqual(netInspect.Labels, r.spec.Labels) THEN FALSE
    ELSE TRUE

\* network controller: Observe
networkObserve(r, eng, res) ==
    LET networkName == GetExternalName(r)
        inspect     == Call("NetworkInspect", networkName, <<>>, res)
    IN  IF networkName = ""
        THEN [cr |-> r, err |-> NoErr, exists |-> FALSE, upToDate |-> FALSE, calls |-> <<>>]
        ELSE IF res # NoErr
        THEN IF isNotFoundError(res)
             THEN [cr |-> r, err |-> NoErr, exists |-> FALSE, upToDate |-> FALSE,
                   calls |-> <<inspect>>]
             ELSE [cr |-> r, err |-> Wrap(res, <<"cannot", "inspect", "network">>),
                   exists |-> FALSE, upToDate |-> FALSE, calls |-> <<inspect>>]
        ELSE [cr |-> networkUpdateStatus(r, eng[networkName]), err |-> NoErr, exists |-> TRUE,
              upToDate |-> networkIsUpToDate(r, eng[networkName]), calls |-> <<inspect>>]

\* network controller: Create; the new network is inspected after the marker is set
networkCreate(r, eng, n, createRes, inspectRes) ==
    LET opts    == networkBuildCreateOptions(r)
        id      == IdOf(n + 1)
        create  == Call("NetworkCreate", IF createRes = NoErr THEN id ELSE "",
                        <<opts.Name>>, createRes)
        inspect == Call("NetworkInspect", id, <<>>, inspectRes)
        created == EngineNetworkCreate(eng, id, opts)
    IN  IF createRes # NoErr
        THEN [cr |-> r, engine |-> eng, nextId |-> n,
              err |-> Wrap(createRes, <<"cannot", "create", "network">>), calls |-> <<create>>]
        ELSE IF inspectRes # NoErr
        THEN [cr |-> SetExternalName(r, id), engine |-> created, nextId |-> n + 1,
              err |-> Wrap(inspectRes, <<"cannot", "inspect", "network">>),
              calls |-> <<create, inspect>>]
        ELSE [cr |-> networkUpdateStatus(SetExternalName(r, id), created[id]),
              engine |-> created, nextId |-> n + 1, err |-> NoErr,
              calls |-> <<create, inspect>>]

\* network controller: Update
networkUpdate(r, eng) == [cr |-> r, engine |-> eng, err |-> NoErr, calls |-> <<>>]

\* network controller: Delete
networkDelete(r, eng, removeRes) ==
    LET networkName == GetExternalName(r)
        remove      == Call("NetworkRemove", networkName, <<>>, removeRes)
        removed     == IF removeRes = NoErr THEN Without(eng, networkName) ELSE eng
    IN  IF networkName = ""
        THEN [cr |-> r, engine |-> eng, err |-> NoErr, calls |-> <<>>]
        ELSE IF removeRes # NoErr /\ ~isNotFoundError(removeRes)
        THEN [cr |-> r, engine |-> removed,
              err |-> Wrap(removeRes, <<"cannot", "remove", "network">>), calls |-> <<remove>>]
        ELSE [cr |-> r, engine |-> removed, err |-> NoErr, calls |-> <<remove>>]

(* ------------------------- the records modelled ----------------------- *)

Str(c) == <<c>>

LiteralEnv(name, value) == [Name |-> name, Value |-> Some(value), ValueFrom |-> None]

ConfigMapEnv(name) ==
    [Name |-> name, Value |-> None,
     ValueFrom |-> Some([ConfigMapKeyRef |-> TRUE, SecretKeyRef |-> FALSE, Optional |-> Some(TRUE)])]

WebPort == [ContainerPort |-> 80, Protocol |-> Some("TCP"), HostPort |-> Some(8080), HostIP |-> None]

NoVolumeSource ==
    [HostPath |-> None, Volume |-> None, Bind |-> None, EmptyDir |-> None,
     Secret |-> FALSE, ConfigMap |-> FALSE]

\* an ephemeral mount at /tmp with the size limit given
EmptyDirMount(sizeLimit) ==
    [Name |-> "scratch", MountPath |-> "/tmp", ReadOnly |-> None,
     VolumeSource |-> [NoVolumeSource EXCEPT !.EmptyDir = Some([SizeLimit |-> sizeLimit])]]

ContainerSpecs ==
    {[Image |-> "nginx:1.21", Name |-> nm, Environment |-> env,
      Labels |-> Some([app |-> "web"]), Ports |-> <<WebPort>>, Volumes |-> vs,
      RestartPolicy |-> Some("on-failure"), MaximumRetryCount |-> Some(3),
      Privileged |-> pv, StartOnCreate |-> st, HealthCheck |-> hc] :
        nm \in {None, Some("web")},
        env \in {<<LiteralEnv(Str("A"), Str("1"))>>, <<ConfigMapEnv(Str("A"))>>},
        vs \in {<<>>},
        pv \in {None, Some(TRUE), Some(FALSE)},
        st \in {None, Some(FALSE)},
        hc \in {None, Some([Test |-> <<>>]), Some([Test |-> <<"CMD", "true">>])}}
    \cup
    {[Image |-> "nginx:1.21", Name |-> nm, Environment |-> env,
      Labels |-> Some([app |-> "web"]), Ports |-> <<WebPort>>, Volumes |-> vs,
      RestartPolicy |-> Some("on-failure"), MaximumRetryCount |-> Some(3),
      Privileged |-> None, StartOnCreate |-> st, HealthCheck |-> None] :
        nm \in {None, Some("web")},
        env \in {<<LiteralEnv(Str("A"), Str("1"))>>, <<ConfigMapEnv(Str("A"))>>},
        vs \in {<<EmptyDirMount(Some(<<"6", "4", "M", "i">>))>>,
                <<EmptyDirMount(Some(<<"6", "4", "M", "B">>))>>},
        st \in {None, Some(FALSE)}}

VolumeSpecs ==
    {[Name |-> nm, Driver |-> dr, Labels |-> lb] :
        nm \in {None, Some("data")}, dr \in {None, Some("nfs")},
        lb \in {None, Some([app |-> "web"])}}

NetworkSpecs ==
    {[Name |-> nm, Driver |-> dr, Internal |-> it, Attachable |-> None, EnableIPv6 |-> None,
      Labels |-> lb] :
        nm \in {None, Some("backend")}, dr \in {None, Some("overlay")},
        it \in {None, Some(TRUE)}, lb \in {None, Some([app |-> "web"])}}

NewRecord(kind, spec) ==
    [kind |-> kind, name |-> "rec", annotations |-> None, spec |-> spec,
     atProvider |-> <<>>, condition |-> <<>>]

Records ==
    {NewRecord("container", s) : s \in ContainerSpecs}
    \cup {NewRecord("volume", s) : s \in VolumeSpecs}
    \cup {NewRecord("network", s) : s \in NetworkSpecs}

(* --------------------------- lifecycle steps -------------------------- *)

\* what a step leaves in last: the operation, the marker and the presence of
\* the marked object when it began, and the operation's result
Outcome(op, res) ==
    [op       |-> op,
     marker   |-> GetExternalName(cr),
     present  |-> Present(engine, cr.kind, GetExternalName(cr)),
     err      |-> res.err,
     exists   |-> res.exists,
     upToDate |-> res.upToDate,
     calls    |-> res.calls]

NoObservation(res) ==
    [err |-> res.err, exists |-> FALSE, upToDate |-> FALSE, calls |-> res.calls]

Summary(l) ==
    [created |-> l.op = "Create" /\ l.err = NoErr,
     started |-> \E i \in DOMAIN l.calls :
                    l.calls[i].call = "ContainerStart" /\ l.calls[i].res = NoErr]

\* the managed reconciler calls Create only after an Observe that reported
\* "does not exist"
ReconcileCreate == last.op = "Observe" /\ last.err = NoErr /\ ~last.exists

ContainerObserve ==
    /\ cr.kind = "container"
    /\ \E res \in ByIdOutcomes(engine, "container", GetExternalName(cr)) :
          LET r == containerObserve(cr, engine, res)
          IN  /\ cr' = r.cr
              /\ last' = Outcome("Observe", r)
    /\ prev' = Summary(last)
    /\ UNCHANGED <<engineFaults, records, stacks, engine, nextId, diffIn, diffOut>>

ContainerCreate ==
    /\ cr.kind = "container"
    /\ ReconcileCreate
    /\ \E createRes \in NewObjectOutcomes(engine, nextId, "container",
                                          IF cr.spec.Name # None THEN Deref(cr.spec.Name) ELSE ""),
          startRes \in {NoErr} \cup TransientErrs :
          LET r == containerCreate(cr, engine, nextId, createRes, startRes)
          IN  /\ cr' = r.cr
              /\ engine' = r.engine
              /\ nextId' = r.nextId
              /\ last' = Outcome("Create", NoObservation(r))
    /\ prev' = Summary(last)
    /\ UNCHANGED <<engineFaults, records, stacks, diffIn, diffOut>>

ContainerUpdate ==
    /\ cr.kind = "container"
    /\ LET r == containerUpdate(cr, engine)
       IN  /\ cr' = r.cr
           /\ engine' = r.engine
           /\ last' = Outcome("Update", NoObservation(r))
    /\ prev' = Summary(last)
    /\ UNCHANGED <<engineFaults, records, stacks, nextId, diffIn, diffOut>>

ContainerDelete ==
    /\ cr.kind = "container"
    /\ \E stopRes \in ByIdOutcomes(engine, "container", GetExternalName(cr)),
          removeRes \in ByIdOutcomes(engine, "container", GetExternalName(cr)) :
          LET r == containerDelete(cr, engine, stopRes, removeRes)
          IN  /\ cr' = r.cr
              /\ engine' = r.engine
              /\ last' = Outcome("Delete", NoObservation(r))
    /\ prev' = Summary(last)
    /\ UNCHANGED <<engineFaults, records, stacks, nextId, diffIn, diffOut>>

VolumeObserve ==
    /\ cr.kind = "volume"
    /\ \E res \in ByIdOutcomes(engine, "volume", GetExternalName(cr)) :
          LET r == volumeObserve(cr, engine, res)
          IN  /\ cr' = r.cr
              /\ last' = Outcome("Observe", r)
    /\ prev' = Summary(last)
    /\ UNCHANGED <<engineFaults, records, stacks, engine, nextId, diffIn, diffOut>>

VolumeCreate ==
    /\ cr.kind = "volume"
    /\ ReconcileCreate
    /\ \E createRes \in {NoErr} \cup TransientErrs :
          LET r == volumeCreate(cr, engine, createRes)
          IN  /\ cr' = r.cr
              /\ engine' = r.engine
              /\ last' = Outcome("Create", NoObservation(r))
    /\ prev' = Summary(last)
    /\ UNCHANGED <<engineFaults, records, stacks, nextId, diffIn, diffOut>>

VolumeUpdate ==
    /\ cr.kind = "volume"
    /\ LET r == volumeUpdate(cr, engine)
       IN  /\ cr' = r.cr
           /\ engine' = r.engine
           /\ last' = Outcome("Update", NoObservation(r))
    /\ prev' = Summary(last)
    /\ UNCHANGED <<engineFaults, records, stacks, nextId, diffIn, diffOut>>

VolumeDelete ==
    /\ cr.kind = "volume"
    /\ \E removeRes \in ByIdOutcomes(engine, "volume", GetExternalName(cr)) :
          LET r == volumeDelete(cr, engine, removeRes)
          IN  /\ cr' = r.cr
              /\ engine' = r.engine
              /\ last' = Outcome("Delete", NoObservation(r))
    /\ prev' = Summary(last)
    /\ UNCHANGED <<engineFaults, records, stacks, nextId, diffIn, diffOut>>

NetworkObserve ==
    /\ cr.kind = "network"
    /\ \E res \in ByIdOutcomes(engine, "network", GetExternalName(cr)) :
          LET r == networkObserve(cr, engine, res)
          IN  /\ cr' = r.cr
              /\ last' = Outcome("Observe", r)
    /\ prev' = Summary(last)
    /\ UNCHANGED <<engineFaults, records, stacks, engine, nextId, diffIn, diffOut>>

NetworkCreate ==
    /\ cr.kind = "network"
    /\ ReconcileCreate
    /\ \E createRes \in NewObjectOutcomes(engine, nextId, "network",
                                          networkBuildCreateOptions(cr).Name),
          inspectRes \in {NoErr} \cup TransientErrs :
          LET r == networkCreate(cr, engine, nextId, createRes, inspectRes)
          IN  /\ cr' = r.cr
              /\ engine' = r.engine
              /\ nextId' = r.nextId
              /\ last' = Outcome("Create", NoObservation(r))
    /\ prev' = Summary(last)
    /\ UNCHANGED <<engineFaults, records, stacks, diffIn, diffOut>>

NetworkUpdate ==
    /\ cr.kind = "network"
    /\ LET r == networkUpdate(cr, engine)
       IN  /\ cr' = r.cr
           /\ engine' = r.engine
           /\ last' = Outcome("Update", NoObservation(r))
    /\ prev' = Summary(last)
    /\ UNCHANGED <<engineFaults, records, stacks, nextId, diffIn, diffOut>>

NetworkDelete ==
    /\ cr.kind = "network"
    /\ \E removeRes \in ByIdOutcomes(engine, "network", GetExternalName(cr)) :
          LET r == networkDelete(cr, engine, removeRes)
          IN  /\ cr' = r.cr
              /\ engine' = r.engine
              /\ last' = Outcome("Delete", NoObservation(r))
    /\ prev' = Summary(last)
    /\ UNCHANGED <<engineFaults, records, stacks, nextId, diffIn, diffOut>>

\* the engine loses an object behind the controller's back
EngineLosesObject ==
    /\ \E id \in DOMAIN engine : engine' = Without(engine, id)
    /\ last' = Outcome("EngineLosesObject",
                       [err |-> NoErr, exists |-> FALSE, upToDate |-> FALSE, calls |-> <<>>])
    /\ prev' = Summary(last)
    /\ UNCHANGED <<engineFaults, records, stacks, cr, nextId, diffIn, diffOut>>

\* a running container exits, or its health check reports
EngineContainerChanges ==
    /\ \E id \in DOMAIN engine :
          /\ engine[id].kind = "container"
          /\ engine[id].State.Running
          /\ \/ engine' = EngineContainerStop(engine, id)
             \/ /\ engine[id].State.Health # None
                /\ \E h \in {"healthy", "unhealthy"} :
                      /\ engine[id].State.Health # Some(h)
                      /\ engine' = [engine EXCEPT ![id].State.Health = Some(h)]
    /\ last' = Outcome("EngineContainerChanges",
                       [err |-> NoErr, exists |-> FALSE, upToDate |-> FALSE, calls |-> <<>>])
    /\ prev' = Summary(last)
    /\ UNCHANGED <<engineFaults, records, stacks, cr, nextId, diffIn, diffOut>>

\* the verdict an Observe whose inspect call succeeds gives on the record's
\* object: it exists and does not match the declared spec
Drifted ==
    LET id == GetExternalName(cr)
    IN  /\ id # ""
        /\ Present(engine, cr.kind, id)
        /\ CASE cr.kind = "container" ->
                    ~isUpToDate(cr.spec, EngineContainerInspect(engine, id))
              [] cr.kind = "volume"  -> ~volumeIsUpToDate(cr, engine[id])
              [] cr.kind = "network" -> ~networkIsUpToDate(cr, engine[id])

NoDiff == [fn |-> "none"]

Init ==
    /\ cr \in Records
    /\ engine = <<>>
    /\ nextId = 0
    /\ last = [op |-> "Init", marker |-> "", present |-> FALSE, err |-> NoErr,
               exists |-> FALSE, upToDate |-> FALSE, calls |-> <<>>]
    /\ prev = [created |-> FALSE, started |-> FALSE]
    /\ diffIn = NoDiff
    /\ diffOut = NoDiff
    /\ stacks = <<>>
    /\ records = <<>>
    /\ engineFaults = TRUE

Next ==
    \/ ContainerObserve
    \/ ContainerCreate
    \/ ContainerUpdate
    \/ ContainerDelete
    \/ VolumeObserve
    \/ VolumeCreate
    \/ VolumeUpdate
    \/ VolumeDelete
    \/ NetworkObserve
    \/ NetworkCreate
    \/ NetworkUpdate
    \/ NetworkDelete
    \/ EngineLosesObject
    \/ EngineContainerChanges

Spec == Init /\ [][Next]_vars

(* ------------------------ a spec edited after creation ---------------- *)

\* the records whose declared spec is edited
DriftRecords ==
    {NewRecord("container", s) :
        s \in {c \in ContainerSpecs :
                  /\ c.Volumes = <<>>
                  /\ c.Privileged = None
                  /\ c.HealthCheck # Some([Test |-> <<>>])}}
    \cup {NewRecord("volume", s) : s \in VolumeSpecs}
    \cup {NewRecord("network", s) : s \in NetworkSpecs}

\* the declared specs an edit can lead to: another image for a container,
\* another driver or other labels for a volume or network
EditedSpecs(r) ==
    CASE r.kind = "container" ->
            {[r.spec EXCEPT !.Image = image] : image \in {"nginx:1.21", "nginx:1.22"}}
      [] r.kind = "volume"  ->
            {s \in VolumeSpecs : s.Name = r.spec.Name}
      [] r.kind = "network" ->
            {s \in NetworkSpecs : s.Name = r.spec.Name /\ s.Internal = r.spec.Internal}

\* the user edits the record's declared spec
SpecEdited ==
    /\ \E s \in EditedSpecs(cr) \ {cr.spec} : cr' = [cr EXCEPT !.spec = s]
    /\ last' = Outcome("SpecEdited",
                       [err |-> NoErr, exists |-> FALSE, upToDate |-> FALSE, calls |-> <<>>])
    /\ prev' = Summary(last)
    /\ UNCHANGED <<engineFaults, records, stacks, engine, nextId, diffIn, diffOut>>

InitDrift ==
    /\ Init
    /\ cr \in DriftRecords

NextDrift ==
    \/ Next
    \/ SpecEdited

SpecDrift == InitDrift /\ [][NextDrift]_vars

(* --------------------- the namespaced container record ---------------- *)

\* convertV1Beta1ToV1Alpha1: a new record built from the namespaced one's
\* fields. The object metadata is copied by value, so the copy's annotations
\* are the same map as the original's when that map exists, and no map when
\* the original has none.
convertV1Beta1ToV1Alpha1(v1beta1Container) ==
    [kind        |-> "container",
     name        |-> v1beta1Container.name,
     annotations |-> v1beta1Container.annotations,
     spec        |-> v1beta1Container.spec,
     atProvider  |-> v1beta1Container.atProvider,
     condition   |-> v1beta1Container.condition]

\* a write to the copy's annotation map reaches the managed resource only
\* when the map was there to be shared at Connect
SharedAnnotations(mg) == mg.annotations # None

\* the namespaced records modelled: without annotations, and with an
\* annotation of the user's
V1Beta1Records ==
    {[kind |-> "v1beta1container", name |-> "rec", annotations |-> a, spec |-> s,
      atProvider |-> <<>>, condition |-> <<>>] :
        a \in {None, Some([owner |-> "team"])},
        s \in {c \in ContainerSpecs : c.Volumes = <<>> /\ c.HealthCheck = None}}

\* v1beta1Connector.Connect: every reconcile invocation converts the managed
\* resource it was passed and keeps the copy
V1Beta1Connect ==
    /\ cr' = convertV1Beta1ToV1Alpha1(records.mg)
    /\ last' = Outcome("Connect",
                       [err |-> NoErr, exists |-> FALSE, upToDate |-> FALSE, calls |-> <<>>])
    /\ prev' = Summary(last)
    /\ UNCHANGED <<engineFaults, records, stacks, engine, nextId, diffIn, diffOut>>

\* v1beta1External.Observe
V1Beta1Observe ==
    /\ last.op = "Connect"
    /\ \E res \in ByIdOutcomes(engine, "container", GetExternalName(cr)) :
          LET r == containerObserve(cr, engine, res)
          IN  /\ cr' = r.cr
              /\ records' = IF r.err = NoErr /\ r.exists
                            THEN [records EXCEPT !.mg.atProvider = r.cr.atProvider,
                                                 !.mg.condition = r.cr.condition]
                            ELSE records
              /\ last' = Outcome("Observe", r)
    /\ prev' = Summary(last)
    /\ UNCHANGED <<engineFaults, stacks, engine, nextId, diffIn, diffOut>>

\* v1beta1External.Create
V1Beta1Create ==
    /\ ReconcileCreate
    /\ \E createRes \in NewObjectOutcomes(engine, nextId, "container",
                                          IF cr.spec.Name # None THEN Deref(cr.spec.Name) ELSE ""),
          startRes \in {NoErr} \cup TransientErrs :
          LET r == containerCreate(cr, engine, nextId, createRes, startRes)
          IN  /\ cr' = r.cr
              /\ records' = IF r.err = NoErr /\ SharedAnnotations(records.mg)
                            THEN [records EXCEPT !.mg.annotations = r.cr.annotations]
                            ELSE records
              /\ engine' = r.engine
              /\ nextId' = r.nextId
              /\ last' = Outcome("Create", NoObservation(r))
    /\ prev' = Summary(last)
    /\ UNCHANGED <<engineFaults, stacks, diffIn, diffOut>>

\* v1beta1External.Update
V1Beta1Update ==
    /\ last.op = "Observe" /\ last.err = NoErr /\ last.exists /\ ~last.upToDate
    /\ LET r == containerUpdate(cr, engine)
       IN  /\ cr' = r.cr
           /\ engine' = r.engine
           /\ last' = Outcome("Update", NoObservation(r))
    /\ prev' = Summary(last)
    /\ UNCHANGED <<engineFaults, records, stacks, nextId, diffIn, diffOut>>

\* v1beta1External.Delete
V1Beta1Delete ==
    /\ last.op = "Observe" /\ last.err = NoErr /\ last.exists
    /\ \E stopRes \in ByIdOutcomes(engine, "container", GetExternalName(cr)),
          removeRes \in ByIdOutcomes(engine, "container", GetExternalName(cr)) :
          LET r == containerDelete(cr, engine, stopRes, removeRes)
          IN  /\ cr' = r.cr
              /\ engine' = r.engine
              /\ last' = Outcome("Delete", NoObservation(r))
    /\ prev' = Summary(last)
    /\ UNCHANGED <<engineFaults, records, stacks, nextId, diffIn, diffOut>>

InitV1Beta1 ==
    /\ \E mg \in V1Beta1Records :
          /\ records = [mg |-> mg]
          /\ cr = convertV1Beta1ToV1Alpha1(mg)
    /\ engine = <<>>
    /\ nextId = 0
    /\ last = [op |-> "Connect", marker |-> "", present |-> FALSE, err |-> NoErr,
               exists |-> FALSE, upToDate |-> FALSE, calls |-> <<>>]
    /\ prev = [created |-> FALSE, started |-> FALSE]
    /\ diffIn = NoDiff
    /\ diffOut = NoDiff
    /\ stacks = <<>>
    /\ engineFaults = TRUE

NextV1Beta1 ==
    \/ V1Beta1Connect
    \/ V1Beta1Observe
    \/ V1Beta1Create
    \/ V1Beta1Update
    \/ V1Beta1Delete

SpecV1Beta1 == InitV1Beta1 /\ [][NextV1Beta1]_vars

(* ------------------- two records side by side ------------------------- *)

\* the keys of the two records
PairKeys == {"a", "b"}

\* the specs of the two records: with the same declared name, with different
\* ones, started on create or not
PairSpecs ==
    {s \in ContainerSpecs :
        /\ s.Environment = <<LiteralEnv(Str("A"), Str("1"))>>
        /\ s.Volumes = <<>>
        /\ s.Privileged \in {None, Some(TRUE)}
        /\ s.HealthCheck = None}

PairRecords ==
    {[k \in PairKeys |-> NewRecord("container", IF k = "a" THEN sa ELSE sb)] :
        sa \in {s \in PairSpecs : /\ s.Name = Some("web") /\ s.StartOnCreate = None
                                  /\ s.Privileged = None},
        sb \in {s \in PairSpecs : s.Privileged = None \/ s.StartOnCreate = None}}

\* what a step on record k leaves in last
PairOutcome(op, k, res) ==
    [op       |-> op,
     rec      |-> k,
     marker   |-> GetExternalName(records[k]),
     present  |-> Present(engine, "container", GetExternalName(records[k])),
     err      |-> res.err,
     exists   |-> res.exists,
     upToDate |-> res.upToDate,
     calls    |-> res.calls]

\* what the reconciler of a record holds after Observe: the observation that
\* decides its next call
PairSummary(op, res) ==
    [op |-> op, err |-> res.err, exists |-> res.exists, upToDate |-> res.upToDate]

\* and what it holds before its first Observe and once that call is made
NotObserved == [op |-> "none", err |-> NoErr, exists |-> FALSE, upToDate |-> FALSE]

PairObserve ==
    /\ \E k \in DOMAIN records :
          \E res \in ByIdOutcomes(engine, "container", GetExternalName(records[k])) :
             LET r == containerObserve(records[k], engine, res)
             IN  /\ records' = [records EXCEPT ![k] = r.cr]
                 /\ last' = PairOutcome("Observe", k, r)
                 /\ prev' = [prev EXCEPT ![k] = PairSummary("Observe", r)]
    /\ UNCHANGED <<engineFaults, cr, stacks, engine, nextId, diffIn, diffOut>>

\* the reconciler of a record calls Create only after its Observe reported
\* "does not exist"
PairCreate ==
    /\ \E k \in {x \in DOMAIN records :
                    prev[x].op = "Observe" /\ prev[x].err = NoErr /\ ~prev[x].exists} :
          \E createRes \in NewObjectOutcomes(engine, nextId, "container",
                                             IF records[k].spec.Name # None
                                             THEN Deref(records[k].spec.Name) ELSE ""),
             startRes \in {NoErr} \cup TransientErrs :
             LET r == containerCreate(records[k], engine, nextId, createRes, startRes)
             IN  /\ records' = [records EXCEPT ![k] = r.cr]
                 /\ engine' = r.engine
                 /\ nextId' = r.nextId
                 /\ last' = PairOutcome("Create", k, NoObservation(r))
                 /\ prev' = [prev EXCEPT ![k] = NotObserved]
    /\ UNCHANGED <<engineFaults, cr, stacks, diffIn, diffOut>>

\* Update follows an Observe that reported the object as drifted
PairUpdate ==
    /\ \E k \in {x \in DOMAIN records :
                    /\ prev[x].op = "Observe" /\ prev[x].err = NoErr
                    /\ prev[x].exists /\ ~prev[x].upToDate} :
          LET r == containerUpdate(records[k], engine)
          IN  /\ records' = [records EXCEPT ![k] = r.cr]
              /\ engine' = r.engine
              /\ last' = PairOutcome("Update", k, NoObservation(r))
              /\ prev' = [prev EXCEPT ![k] = NotObserved]
    /\ UNCHANGED <<engineFaults, cr, stacks, nextId, diffIn, diffOut>>

\* Delete follows an Observe that reported the object as existing, when the
\* record is being deleted
PairDelete ==
    /\ \E k \in {x \in DOMAIN records :
                    prev[x].op = "Observe" /\ prev[x].err = NoErr /\ prev[x].exists} :
          \E stopRes \in ByIdOutcomes(engine, "container", GetExternalName(records[k])),
             removeRes \in ByIdOutcomes(engine, "container", GetExternalName(records[k])) :
             LET r == containerDelete(records[k], engine, stopRes, removeRes)
             IN  /\ records' = [records EXCEPT ![k] = r.cr]
                 /\ engine' = r.engine
                 /\ last' = PairOutcome("Delete", k, NoObservation(r))
                 /\ prev' = [prev EXCEPT ![k] = NotObserved]
    /\ UNCHANGED <<engineFaults, cr, stacks, nextId, diffIn, diffOut>>

InitPair ==
    /\ cr = NewRecord("container", CHOOSE s \in ContainerSpecs : TRUE)
    /\ engine = <<>>
    /\ nextId = 0
    /\ last = [op |-> "Init", rec |-> "", marker |-> "", present |-> FALSE, err |-> NoErr,
               exists |-> FALSE, upToDate |-> FALSE, calls |-> <<>>]
    /\ prev = [k \in PairKeys |-> NotObserved]
    /\ diffIn = NoDiff
    /\ diffOut = NoDiff
    /\ stacks = <<>>
    /\ records \in PairRecords
    /\ engineFaults = TRUE

NextPair ==
    \/ PairObserve
    \/ PairCreate
    \/ PairUpdate
    \/ PairDelete

SpecPair == InitPair /\ [][NextPair]_vars

(* ============================ stacks ================================== *)
(* Names of stack objects are sequences of name parts, so that the         *)
(* formatting of generated names ("%s-%s", "%s_%s_1") is computed.         *)

(* --------------------------- stack decomposer ------------------------- *)

\* the orders in which a Go map with n entries can be ranged over
RangeOrders(n) ==
    {f \in [1..n -> 1..n] : \A i, j \in 1..n : i # j => f[i] # f[j]}

\* Parser.convertService: the container resource of one service
convertService(projectName, service) ==
    [name |-> projectName \o <<"-">> \o service.Name,
     spec |-> [Image             |-> service.Image,
               Name              |-> Some(service.Name),
               RestartPolicy     |-> IF service.Restart # "" THEN Some(service.Restart) ELSE None,
               MaximumRetryCount |-> None,
               Labels            |-> IF Cardinality(DOMAIN service.Labels) > 0
                                     THEN Some(service.Labels) ELSE None,
               Privileged        |-> None,
               StartOnCreate     |-> None]]

\* Parser.convertServices: types.Services is a map from service name to
\* service, so the range loop visits the services in an order the document
\* does not determine; order is the permutation this run visits them in
convertServices(projectName, services, order) ==
    [i \in 1..Len(services) |-> convertService(projectName, services[order[i]])]

\* a conversion that names a volume definition by its key alone
convertVolumes_KeyOnly(projectName, volumes, order) ==
    [i \in 1..Len(volumes) |->
        [Name       |-> volumes[order[i]].Key,
         Driver     |-> volumes[order[i]].Driver,
         DriverOpts |-> volumes[order[i]].DriverOpts,
         Labels     |-> volumes[order[i]].Labels]]

\* Parser.convertVolumes: types.Volumes is a map from the declared volume key
\* to its configuration, ranged over in the order this run visits it in
convertVolumes(projectName, volumes, order) ==
    [i \in 1..Len(volumes) |->
        [Name       |-> projectName \o <<"_">> \o volumes[order[i]].Key,
         Driver     |-> volumes[order[i]].Driver,
         DriverOpts |-> volumes[order[i]].DriverOpts,
         Labels     |-> volumes[order[i]].Labels]]

\* Parser.ParseCompose: content is the document as the compose loader reads
\* it, its services and volumes listed in declared order
ParseCompose(projectName, content, order, volumeOrder) ==
    IF ~content.wellFormed
    THEN [err |-> <<"failed", "to", "parse", "compose", "content">>,
          Containers |-> <<>>, Volumes |-> <<>>]
    ELSE [err |-> NoErr,
          Containers |-> convertServices(projectName, content.services, order),
          Volumes    |-> convertVolumes(projectName, content.volumes, volumeOrder)]

(* ---------------------------- stack controller ------------------------ *)

\* external.getComposeContent, for a record without a document reference
getComposeContent(r) ==
    IF r.spec.Compose # None
    THEN [err |-> NoErr, content |-> Deref(r.spec.Compose)]
    ELSE [err |-> <<"no", "compose", "content", "or", "reference", "specified">>,
          content |-> [wellFormed |-> FALSE, services |-> <<>>, volumes |-> <<>>]]

\* external.getProjectName
getProjectName(r) ==
    IF r.spec.ProjectName # None THEN Deref(r.spec.ProjectName) ELSE r.name

\* external.getContainerName: fmt.Sprintf("%s_%s_1", projectName, serviceName)
getContainerName(projectName, serviceName) ==
    projectName \o <<"_">> \o serviceName \o <<"_", "1">>

LabelComposeProject == "com.docker.compose.project"

LabelComposeService == "com.docker.compose.service"

\* m[k] = v on a Go map
MapSet(m, k, v) == [x \in DOMAIN m \cup {k} |-> IF x = k THEN v ELSE m[x]]

\* a conversion that keeps a project label the document declares
convertContainerSpec_DeclaredLabelWins(spec, projectName) ==
    LET declared == IF Cardinality(DOMAIN MapOf(spec.Labels)) > 0 THEN MapOf(spec.Labels) ELSE <<>>
        project  == IF LabelComposeProject \in DOMAIN declared THEN declared
                    ELSE MapSet(declared, LabelComposeProject, projectName)
        labels   == IF spec.Name # None
                    THEN MapSet(project, LabelComposeService, Deref(spec.Name))
                    ELSE project
    IN  [err        |-> NoErr,
         config     |-> [Image       |-> spec.Image,
                         Hostname    |-> IF spec.Name # None THEN Deref(spec.Name) ELSE <<>>,
                         Env         |-> <<>>,
                         Labels      |-> Some(labels),
                         Healthcheck |-> None],
         hostConfig |-> [PortBindings  |-> <<>>,
                         RestartPolicy |->
                             IF spec.RestartPolicy # None
                             THEN [Name |-> Deref(spec.RestartPolicy),
                                   MaximumRetryCount |->
                                       IF spec.MaximumRetryCount # None
                                          /\ Deref(spec.RestartPolicy) = "on-failure"
                                       THEN Deref(spec.MaximumRetryCount) ELSE 0]
                             ELSE [Name |-> "", MaximumRetryCount |-> 0],
                         Privileged    |-> IF spec.Privileged # None
                                           THEN Deref(spec.Privileged) ELSE FALSE]]

\* external.convertContainerSpec: the engine creation request of one service
convertContainerSpec(spec, projectName) ==
    LET declared == IF Cardinality(DOMAIN MapOf(spec.Labels)) > 0 THEN MapOf(spec.Labels) ELSE <<>>
        project  == MapSet(declared, LabelComposeProject, projectName)
        labels   == IF spec.Name # None
                    THEN MapSet(project, LabelComposeService, Deref(spec.Name))
                    ELSE project
    IN  [err        |-> NoErr,
         config     |-> [Image       |-> spec.Image,
                         Hostname    |-> IF spec.Name # None THEN Deref(spec.Name) ELSE <<>>,
                         Env         |-> <<>>,
                         Labels      |-> Some(labels),
                         Healthcheck |-> None],
         hostConfig |-> [PortBindings  |-> <<>>,
                         RestartPolicy |->
                             IF spec.RestartPolicy # None
                             THEN [Name |-> Deref(spec.RestartPolicy),
                                   MaximumRetryCount |->
                                       IF spec.MaximumRetryCount # None
                                          /\ Deref(spec.RestartPolicy) = "on-failure"
                                       THEN Deref(spec.MaximumRetryCount) ELSE 0]
                             ELSE [Name |-> "", MaximumRetryCount |-> 0],
                         Privileged    |-> IF spec.Privileged # None
                                           THEN Deref(spec.Privileged) ELSE FALSE]]

\* identities the engine can assign to stack containers in one behaviour
MaxStackIds == 3

\* the engine's answer when no container has the name asked for
StackNotFoundErr == <<"No", "such", "container">>

\* the containers of the engine that carry the name
FindByName(eng, name) ==
    {id \in DOMAIN eng : eng[id].kind = "container" /\ eng[id].Name = name}

\* outcomes of ContainerInspect by name
StackInspectOutcomes(eng, name) ==
    IF FindByName(eng, name) # {} THEN {NoErr} \cup TransientErrs
    ELSE {StackNotFoundErr} \cup TransientErrs

\* outcomes of ContainerCreate under a name: the engine refuses a name in use
StackCreateOutcomes(eng, n, name) ==
    IF FindByName(eng, name) # {} THEN {ConflictErr} \cup TransientErrs
    ELSE IF n < MaxStackIds THEN {NoErr} \cup TransientErrs
    ELSE TransientErrs

\* the outcomes of the three engine calls createContainer can make; a call
\* that is not made has the outcome NoErr
CreateCallOutcomes ==
    [inspect : {NoErr, StackNotFoundErr} \cup TransientErrs,
     create  : {NoErr, ConflictErr} \cup TransientErrs,
     start   : {NoErr} \cup TransientErrs]

\* o is a possible outcome of createContainer's calls against eng
PossibleCreateOutcome(eng, n, name, o) ==
    /\ o.inspect \in StackInspectOutcomes(eng, name)
    /\ IF o.inspect = NoErr
       THEN o.create = NoErr /\ o.start = NoErr
       ELSE /\ o.create \in StackCreateOutcomes(eng, n, name)
            /\ o.create # NoErr => o.start = NoErr

\* a createContainer that reports success when its create or start call failed
createContainer_IgnoresFailure(eng, n, projectName, cont, o) ==
    LET containerName == getContainerName(projectName, cont.name)
        inspect       == Call("ContainerInspect", containerName, <<>>, o.inspect)
        built         == convertContainerSpec(cont.spec, projectName)
        id            == IdOf(n + 1)
        create        == Call("ContainerCreate", IF o.create = NoErr THEN id ELSE "",
                              <<containerName, built.config.Labels>>, o.create)
        start         == Call("ContainerStart", id, <<>>, o.start)
        created       == EngineContainerCreate(eng, id, built.config, built.hostConfig,
                                               containerName)
        startOnCreate == IF cont.spec.StartOnCreate # None
                         THEN Deref(cont.spec.StartOnCreate) ELSE TRUE
    IN  IF o.inspect = NoErr
        THEN [engine |-> eng, nextId |-> n, err |-> NoErr, calls |-> <<inspect>>]
        ELSE IF built.err # NoErr
        THEN [engine |-> eng, nextId |-> n,
              err |-> Wrap(built.err, <<"failed", "to", "convert", "container", "spec">>),
              calls |-> <<inspect>>]
        ELSE IF o.create # NoErr
        THEN [engine |-> eng, nextId |-> n,
              err |-> NoErr,
              calls |-> <<inspect, create>>]
        ELSE IF startOnCreate /\ o.start # NoErr
        THEN [engine |-> created, nextId |-> n + 1,
              err |-> NoErr,
              calls |-> <<inspect, create, start>>]
        ELSE [engine |-> IF startOnCreate THEN EngineContainerStart(created, id) ELSE created,
              nextId |-> n + 1, err |-> NoErr,
              calls  |-> IF startOnCreate THEN <<inspect, create, start>>
                         ELSE <<inspect, create>>]

\* a createContainer that creates without looking at what the inspect call said
createContainer_NoExistenceCheck(eng, n, projectName, cont, o) ==
    LET containerName == getContainerName(projectName, cont.name)
        inspect       == Call("ContainerInspect", containerName, <<>>, o.inspect)
        built         == convertContainerSpec(cont.spec, projectName)
        id            == IdOf(n + 1)
        create        == Call("ContainerCreate", IF o.create = NoErr THEN id ELSE "",
                              <<containerName, built.config.Labels>>, o.create)
        start         == Call("ContainerStart", id, <<>>, o.start)
        created       == EngineContainerCreate(eng, id, built.config, built.hostConfig,
                                               containerName)
        startOnCreate == IF cont.spec.StartOnCreate # None
                         THEN Deref(cont.spec.StartOnCreate) ELSE TRUE
    IN  IF built.err # NoErr
        THEN [engine |-> eng, nextId |-> n,
              err |-> Wrap(built.err, <<"failed", "to", "convert", "container", "spec">>),
              calls |-> <<inspect>>]
        ELSE IF o.create # NoErr
        THEN [engine |-> eng, nextId |-> n,
              err |-> Wrap(o.create, <<"failed", "to", "create", "container">> \o containerName),
              calls |-> <<inspect, create>>]
        ELSE IF startOnCreate /\ o.start # NoErr
        THEN [engine |-> created, nextId |-> n + 1,
              err |-> Wrap(o.start, <<"failed", "to", "start", "container">> \o containerName),
              calls |-> <<inspect, create, start>>]
        ELSE [engine |-> IF startOnCreate THEN EngineContainerStart(created, id) ELSE created,
              nextId |-> n + 1, err |-> NoErr,
              calls  |-> IF startOnCreate THEN <<inspect, create, start>>
                         ELSE <<inspect, create>>]

\* external.createContainer
createContainer(eng, n, projectName, cont, o) ==
    LET containerName == getContainerName(projectName, cont.name)
        inspect       == Call("ContainerInspect", containerName, <<>>, o.inspect)
        built         == convertContainerSpec(cont.spec, projectName)
        id            == IdOf(n + 1)
        create        == Call("ContainerCreate", IF o.create = NoErr THEN id ELSE "",
                              <<containerName, built.config.Labels>>, o.create)
        start         == Call("ContainerStart", id, <<>>, o.start)
        created       == EngineContainerCreate(eng, id, built.config, built.hostConfig,
                                               containerName)
        startOnCreate == IF cont.spec.StartOnCreate # None
                         THEN Deref(cont.spec.StartOnCreate) ELSE TRUE
    IN  IF o.inspect = NoErr
        THEN [engine |-> eng, nextId |-> n, err |-> NoErr, calls |-> <<inspect>>]
        ELSE IF built.err # NoErr
        THEN [engine |-> eng, nextId |-> n,
              err |-> Wrap(built.err, <<"failed", "to", "convert", "container", "spec">>),
              calls |-> <<inspect>>]
        ELSE IF o.create # NoErr
        THEN [engine |-> eng, nextId |-> n,
              err |-> Wrap(o.create, <<"failed", "to", "create", "container">> \o containerName),
              calls |-> <<inspect, create>>]
        ELSE IF startOnCreate /\ o.start # NoErr
        THEN [engine |-> created, nextId |-> n + 1,
              err |-> Wrap(o.start, <<"failed", "to", "start", "container">> \o containerName),
              calls |-> <<inspect, create, start>>]
        ELSE [engine |-> IF startOnCreate THEN EngineContainerStart(created, id) ELSE created,
              nextId |-> n + 1, err |-> NoErr,
              calls  |-> IF startOnCreate THEN <<inspect, create, start>>
                         ELSE <<inspect, create>>]

\* the loop of external.Create from its i-th container on; possible says that
\* outcomes is what the engine can answer, and that no outcome is given for a
\* call the loop does not reach
RECURSIVE createContainers(_, _, _, _, _, _)
createContainers(eng, n, projectName, containers, outcomes, i) ==
    IF i > Len(containers)
    THEN [engine |-> eng, nextId |-> n, err |-> NoErr, calls |-> <<>>, possible |-> TRUE]
    ELSE LET name == getContainerName(projectName, containers[i].name)
             r    == createContainer(eng, n, projectName, containers[i], outcomes[i])
         IN  IF ~PossibleCreateOutcome(eng, n, name, outcomes[i])
             THEN [engine |-> eng, nextId |-> n, err |-> NoErr, calls |-> <<>>,
                   possible |-> FALSE]
             ELSE IF r.err # NoErr
             THEN [engine |-> r.engine, nextId |-> r.nextId,
                   err |-> Wrap(r.err, <<"cannot", "create", "container">>),
                   calls |-> r.calls,
                   possible |-> \A j \in (i + 1)..Len(containers) :
                                   outcomes[j] = [inspect |-> NoErr, create |-> NoErr,
                                                  start |-> NoErr]]
             ELSE LET rest == createContainers(r.engine, r.nextId, projectName, containers,
                                               outcomes, i + 1)
                  IN  [rest EXCEPT !.calls = r.calls \o rest.calls]

\* external.Create of the stack controller
stackCreate(r, eng, n, order, outcomes) ==
    LET creating    == [r EXCEPT !.condition = <<"Creating">>]
        content     == getComposeContent(r)
        projectName == getProjectName(r)
        parseResult == ParseCompose(projectName, content.content, order,
                                    CHOOSE o \in RangeOrders(Len(content.content.volumes)) : TRUE)
        loop        == createContainers(eng, n, projectName, parseResult.Containers, outcomes, 1)
    IN  IF content.err # NoErr
        THEN [cr |-> creating, engine |-> eng, nextId |-> n, calls |-> <<>>, possible |-> TRUE,
              err |-> Wrap(content.err, <<"cannot", "parse", "Docker", "Compose", "content">>)]
        ELSE IF parseResult.err # NoErr
        THEN [cr |-> creating, engine |-> eng, nextId |-> n, calls |-> <<>>, possible |-> TRUE,
              err |-> Wrap(parseResult.err, <<"cannot", "parse", "Docker", "Compose", "content">>)]
        ELSE [cr |-> creating, engine |-> loop.engine, nextId |-> loop.nextId,
              calls |-> loop.calls, possible |-> loop.possible, err |-> loop.err]

\* a stack Observe that does not look at the status of the containers it finds
stackObserve_IgnoresStatus(r, eng, order, outcomes) ==
    LET content     == getComposeContent(r)
        projectName == getProjectName(r)
        parseResult == ParseCompose(projectName, content.content, order,
                                    CHOOSE o \in RangeOrders(Len(content.content.volumes)) : TRUE)
        containers  == parseResult.Containers
        nameOf(i)   == getContainerName(projectName, containers[i].name)
        infoOf(i)   == EngineContainerInspect(eng, CHOOSE id \in FindByName(eng, nameOf(i)) : TRUE)
        \* the iterations that take the error branch, and those that find the
        \* container in a status other than running
        failed      == {i \in DOMAIN containers : outcomes[i] # NoErr}
        notRunning  == {}
        ResourceExists   == failed = {}
        ResourceUpToDate == notRunning = {}
        allRunning       == failed = {} /\ notRunning = {}
        lastFor(nm) == CHOOSE i \in DOMAIN containers :
                          /\ containers[i].name = nm
                          /\ \A j \in DOMAIN containers : containers[j].name = nm => j <= i
        statusOf(i) == IF i \in failed
                       THEN [Name |-> containers[i].name, ContainerID |-> None,
                             State |-> "pending", Image |-> None]
                       ELSE [Name |-> containers[i].name, ContainerID |-> Some(infoOf(i).ID),
                             State |-> Deref(infoOf(i).State).Status,
                             Image |-> Some(infoOf(i).Config.Image)]
        services    == [nm \in {containers[i].name : i \in DOMAIN containers} |->
                           statusOf(lastFor(nm))]
        calls       == [i \in DOMAIN containers |->
                           Call("ContainerInspect", nameOf(i), <<>>, outcomes[i])]
    IN  IF content.err # NoErr
        THEN [cr |-> r, exists |-> FALSE, upToDate |-> FALSE, calls |-> <<>>,
              err |-> Wrap(content.err, <<"cannot", "parse", "Docker", "Compose", "content">>)]
        ELSE IF parseResult.err # NoErr
        THEN [cr |-> r, exists |-> FALSE, upToDate |-> FALSE, calls |-> <<>>,
              err |-> Wrap(parseResult.err, <<"cannot", "parse", "Docker", "Compose", "content">>)]
        ELSE [cr |-> [r EXCEPT !.atProvider = [ProjectName |-> projectName,
                                               Services    |-> services],
                               !.condition  = IF ~ResourceExists THEN <<"Unavailable">>
                                              ELSE IF allRunning THEN <<"Available">>
                                              ELSE <<"Creating">>],
              exists |-> ResourceExists, upToDate |-> ResourceUpToDate, calls |-> calls,
              err |-> NoErr]

\* external.Observe of the stack controller; outcomes[i] is the outcome of the
\* inspect call for the i-th container of the parse result
stackObserve(r, eng, order, outcomes) ==
    LET content     == getComposeContent(r)
        projectName == getProjectName(r)
        parseResult == ParseCompose(projectName, content.content, order,
                                    CHOOSE o \in RangeOrders(Len(content.content.volumes)) : TRUE)
        containers  == parseResult.Containers
        nameOf(i)   == getContainerName(projectName, containers[i].name)
        infoOf(i)   == EngineContainerInspect(eng, CHOOSE id \in FindByName(eng, nameOf(i)) : TRUE)
        \* the iterations that take the error branch, and those that find the
        \* container in a status other than running
        failed      == {i \in DOMAIN containers : outcomes[i] # NoErr}
        notRunning  == {i \in DOMAIN containers \ failed :
                            Deref(infoOf(i).State).Status # "running"}
        ResourceExists   == failed = {}
        ResourceUpToDate == notRunning = {}
        allRunning       == failed = {} /\ notRunning = {}
        lastFor(nm) == CHOOSE i \in DOMAIN containers :
                          /\ containers[i].name = nm
                          /\ \A j \in DOMAIN containers : containers[j].name = nm => j <= i
        statusOf(i) == IF i \in failed
                       THEN [Name |-> containers[i].name, ContainerID |-> None,
                             State |-> "pending", Image |-> None]
                       ELSE [Name |-> containers[i].name, ContainerID |-> Some(infoOf(i).ID),
                             State |-> Deref(infoOf(i).State).Status,
                             Image |-> Some(infoOf(i).Config.Image)]
        services    == [nm \in {containers[i].name : i \in DOMAIN containers} |->
                           statusOf(lastFor(nm))]
        calls       == [i \in DOMAIN containers |->
                           Call("ContainerInspect", nameOf(i), <<>>, outcomes[i])]
    IN  IF content.err # NoErr
        THEN [cr |-> r, exists |-> FALSE, upToDate |-> FALSE, calls |-> <<>>,
              err |-> Wrap(content.err, <<"cannot", "parse", "Docker", "Compose", "content">>)]
        ELSE IF parseResult.err # NoErr
        THEN [cr |-> r, exists |-> FALSE, upToDate |-> FALSE, calls |-> <<>>,
              err |-> Wrap(parseResult.err, <<"cannot", "parse", "Docker", "Compose", "content">>)]
        ELSE [cr |-> [r EXCEPT !.atProvider = [ProjectName |-> projectName,
                                               Services    |-> services],
                               !.condition  = IF ~ResourceExists THEN <<"Unavailable">>
                                              ELSE IF allRunning THEN <<"Available">>
                                              ELSE <<"Creating">>],
              exists |-> ResourceExists, upToDate |-> ResourceUpToDate, calls |-> calls,
              err |-> NoErr]

\* external.Update of the stack controller
stackUpdate(r, eng) ==
    [cr |-> [r EXCEPT !.condition = <<"Creating">>], engine |-> eng,
     err |-> NoErr, calls |-> <<>>]

\* the position of an identity in the order the engine assigned them
IdNum(id) == CHOOSE n \in 1..8 : IdOf(n) = id

\* a list filter on the per-service label
LabelFilter_ServiceLabel(key, value) == <<LabelComposeService, "=">> \o value

\* the list filter "label=<key>=<value>" as ContainerList is given it
LabelFilter(key, value) == <<key, "=">> \o value

\* ContainerList with All and a label filter: the matching containers, newest
\* first
RECURSIVE NewestFirst(_)
NewestFirst(ids) ==
    IF ids = {} THEN <<>>
    ELSE LET newest == CHOOSE x \in ids : \A y \in ids : IdNum(y) <= IdNum(x)
         IN  <<newest>> \o NewestFirst(ids \ {newest})

EngineContainerList(eng, filter) ==
    LET key   == SplitN2(filter)[1][1]
        value == SplitN2(filter)[2]
    IN  NewestFirst({id \in DOMAIN eng :
                        /\ eng[id].kind = "container"
                        /\ key \in DOMAIN MapOf(eng[id].Config.Labels)
                        /\ MapOf(eng[id].Config.Labels)[key] = value})

\* outcomes of the stop and the remove call for one listed container
DeleteCallOutcomes == [stop : {NoErr} \cup TransientErrs, remove : {NoErr} \cup TransientErrs]

\* the loop of external.Delete from its i-th listed container on
RECURSIVE removeContainers(_, _, _, _)
removeContainers(eng, containers, outcomes, i) ==
    IF i > Len(containers)
    THEN [engine |-> eng, err |-> NoErr, calls |-> <<>>, possible |-> TRUE]
    ELSE LET id       == containers[i]
             stop     == Call("ContainerStop", id, <<StopTimeout>>, outcomes[i].stop)
             remove   == Call("ContainerRemove", id, <<"force">>, outcomes[i].remove)
             stopped  == EngineContainerStop(eng, id)
             untried  == \A j \in (i + 1)..Len(containers) :
                            outcomes[j] = [stop |-> NoErr, remove |-> NoErr]
         IN  IF outcomes[i].stop # NoErr
             THEN [engine |-> eng, calls |-> <<stop>>,
                   err |-> Wrap(outcomes[i].stop, <<"cannot", "stop", "container", id>>),
                   possible |-> untried /\ outcomes[i].remove = NoErr]
             ELSE IF outcomes[i].remove # NoErr
             THEN [engine |-> stopped, calls |-> <<stop, remove>>,
                   err |-> Wrap(outcomes[i].remove, <<"cannot", "remove", "container", id>>),
                   possible |-> untried]
             ELSE LET rest == removeContainers(Without(stopped, id), containers, outcomes, i + 1)
                  IN  [rest EXCEPT !.calls = <<stop, remove>> \o rest.calls]

\* external.Delete of the stack controller
stackDelete(r, eng, listRes, outcomes) ==
    LET deleting    == [r EXCEPT !.condition = <<"Deleting">>]
        projectName == getProjectName(r)
        filter      == LabelFilter(LabelComposeProject, projectName)
        list        == Call("ContainerList", "", filter, listRes)
        containers  == EngineContainerList(eng, filter)
        loop        == removeContainers(eng, containers, outcomes, 1)
    IN  IF listRes # NoErr
        THEN [cr |-> deleting, engine |-> eng, calls |-> <<list>>, possible |-> TRUE,
              err |-> Wrap(listRes, <<"cannot", "list", "containers">>)]
        ELSE [cr |-> deleting, engine |-> loop.engine, calls |-> <<list>> \o loop.calls,
              possible |-> loop.possible, err |-> loop.err]

(* --------------------------- the stacks modelled ---------------------- *)

Web ==
    [Name |-> <<"web">>, Image |-> "nginx:latest", Restart |-> "always",
     Labels |-> [app |-> <<"web">>]]

\* a service whose document declares the project label itself
Db ==
    [Name |-> <<"db">>, Image |-> "postgres:15", Restart |-> "",
     Labels |-> MapSet(<<>>, LabelComposeProject, <<"legacy">>)]

Api == [Name |-> <<"api">>, Image |-> "api:1", Restart |-> "", Labels |-> <<>>]

Document(services) == [wellFormed |-> TRUE, services |-> services, volumes |-> <<>>]

MalformedDocument == [wellFormed |-> FALSE, services |-> <<>>, volumes |-> <<>>]

NewStack(name, projectName, compose) ==
    [kind |-> "stack", name |-> name,
     spec |-> [Compose |-> compose, ComposeRef |-> None, ProjectName |-> projectName],
     atProvider |-> <<>>, condition |-> <<>>]

\* the record sets modelled: one two-service stack; two one-service stacks
\* whose project names differ or collide; a record whose document does not
\* parse; a record without a document
StackRecords ==
    {[myapp |-> NewStack(<<"myapp">>, None, Some(Document(<<Web, Db>>)))]}
    \cup {[myapp |-> NewStack(<<"myapp">>, None, Some(Document(<<Web>>))),
            shop  |-> NewStack(<<"shop">>, projectName, Some(Document(<<Api>>)))] :
              projectName \in {None, Some(<<"myapp">>)}}
    \cup {[shop |-> NewStack(<<"shop">>, None, compose)] :
              compose \in {None, Some(MalformedDocument)}}

\* the services of a record's document, in declared order
DeclaredServices(r) == getComposeContent(r).content.services

(* ----------------------------- stack steps ---------------------------- *)

\* what a stack step leaves in last: the operation, the record it ran on, the
\* containers the project's label selected and the names in use when it
\* began, and the operation's result
StackOutcome(op, s, res) ==
    [op       |-> op,
     rec      |-> s,
     labelled |-> {id \in DOMAIN engine :
                      LabelComposeProject \in DOMAIN MapOf(engine[id].Config.Labels)
                      /\ MapOf(engine[id].Config.Labels)[LabelComposeProject]
                            = getProjectName(stacks[s])},
     named    |-> {engine[id].Name : id \in DOMAIN engine},
     err      |-> res.err,
     exists   |-> res.exists,
     upToDate |-> res.upToDate,
     calls    |-> res.calls]

\* the managed reconciler begins every reconcile of a record with Observe and
\* calls one of the other operations next, depending on what Observe reported
Observed(s) == last.op = "Observe" /\ last.rec = s /\ last.err = NoErr

StackObserve ==
    /\ \E s \in DOMAIN stacks :
          \E order \in RangeOrders(Len(DeclaredServices(stacks[s]))) :
             \E outcomes \in [1..Len(DeclaredServices(stacks[s])) ->
                                 {NoErr, StackNotFoundErr} \cup TransientErrs] :
                LET projectName == getProjectName(stacks[s])
                    containers  == convertServices(projectName, DeclaredServices(stacks[s]), order)
                    r           == stackObserve(stacks[s], engine, order, outcomes)
                IN  /\ \A i \in DOMAIN outcomes :
                          outcomes[i] \in StackInspectOutcomes(
                              engine, getContainerName(projectName, containers[i].name))
                    /\ ~engineFaults => \A i \in DOMAIN outcomes :
                                            outcomes[i] \notin TransientErrs
                    /\ stacks' = [stacks EXCEPT ![s] = r.cr]
                    /\ last' = StackOutcome("Observe", s, r)
    /\ UNCHANGED <<engineFaults, records, cr, prev, engine, nextId, diffIn, diffOut>>

StackCreate ==
    /\ \E s \in {x \in DOMAIN stacks : Observed(x) /\ ~last.exists} :
          \E order \in RangeOrders(Len(DeclaredServices(stacks[s]))) :
             \E outcomes \in [1..Len(DeclaredServices(stacks[s])) -> CreateCallOutcomes] :
                LET r == stackCreate(stacks[s], engine, nextId, order, outcomes)
                IN  /\ r.possible
                    /\ ~engineFaults => \A i \in DOMAIN outcomes :
                                            /\ outcomes[i].inspect \notin TransientErrs
                                            /\ outcomes[i].create \notin TransientErrs
                                            /\ outcomes[i].start \notin TransientErrs
                    /\ stacks' = [stacks EXCEPT ![s] = r.cr]
                    /\ engine' = r.engine
                    /\ nextId' = r.nextId
                    /\ last' = StackOutcome("Create", s, NoObservation(r))
    /\ UNCHANGED <<engineFaults, records, cr, prev, diffIn, diffOut>>

StackUpdate ==
    /\ \E s \in {x \in DOMAIN stacks : Observed(x) /\ last.exists /\ ~last.upToDate} :
          LET r == stackUpdate(stacks[s], engine)
          IN  /\ stacks' = [stacks EXCEPT ![s] = r.cr]
              /\ engine' = r.engine
              /\ last' = StackOutcome("Update", s, NoObservation(r))
    /\ UNCHANGED <<engineFaults, records, cr, prev, nextId, diffIn, diffOut>>

StackDelete ==
    /\ \E s \in {x \in DOMAIN stacks : Observed(x) /\ last.exists} :
          LET filter == LabelFilter(LabelComposeProject, getProjectName(stacks[s]))
              listed == EngineContainerList(engine, filter)
          IN  \E listRes \in {NoErr} \cup TransientErrs :
                 \E outcomes \in [1..Len(listed) -> DeleteCallOutcomes] :
                    LET r == stackDelete(stacks[s], engine, listRes, outcomes)
                    IN  /\ r.possible
                        /\ ~engineFaults =>
                              /\ listRes = NoErr
                              /\ \A i \in DOMAIN outcomes :
                                    outcomes[i].stop = NoErr /\ outcomes[i].remove = NoErr
                        /\ stacks' = [stacks EXCEPT ![s] = r.cr]
                        /\ engine' = r.engine
                        /\ last' = StackOutcome("Delete", s, NoObservation(r))
    /\ UNCHANGED <<engineFaults, records, cr, prev, nextId, diffIn, diffOut>>

InitStack ==
    /\ cr = NewRecord("container", CHOOSE s \in ContainerSpecs : TRUE)
    /\ engine = <<>>
    /\ nextId = 0
    /\ last = [op |-> "Init", rec |-> "", labelled |-> {}, named |-> {}, err |-> NoErr,
               exists |-> FALSE, upToDate |-> FALSE, calls |-> <<>>]
    /\ prev = [created |-> FALSE, started |-> FALSE]
    /\ diffIn = NoDiff
    /\ diffOut = NoDiff
    /\ stacks \in StackRecords
    /\ records = <<>>
    /\ engineFaults = TRUE

NextStack ==
    \/ StackObserve
    \/ StackCreate
    \/ StackUpdate
    \/ StackDelete

SpecStack == InitStack /\ [][NextStack]_vars

(* --------------------------- stack convergence ------------------------ *)

\* from here on every engine call succeeds
EngineRecovers ==
    /\ engineFaults
    /\ engineFaults' = FALSE
    /\ UNCHANGED <<cr, engine, nextId, last, prev, diffIn, diffOut, stacks, records>>

\* the records reconciled to convergence: one stack of one service
ConvergeRecords ==
    {[myapp |-> NewStack(<<"myapp">>, None, Some(Document(<<service>>)))] :
        service \in {Web, Db, Api}}

InitConverge ==
    /\ cr = NewRecord("container", CHOOSE s \in ContainerSpecs : TRUE)
    /\ engine = <<>>
    /\ nextId = 0
    /\ last = [op |-> "Init", rec |-> "", labelled |-> {}, named |-> {}, err |-> NoErr,
               exists |-> FALSE, upToDate |-> FALSE, calls |-> <<>>]
    /\ prev = [created |-> FALSE, started |-> FALSE]
    /\ diffIn = NoDiff
    /\ diffOut = NoDiff
    /\ stacks \in ConvergeRecords
    /\ records = <<>>
    /\ engineFaults = TRUE

\* repeated reconcile of records that are not being deleted
NextConverge ==
    \/ StackObserve
    \/ StackCreate
    \/ StackUpdate
    \/ EngineRecovers

\* the reconciler is requeued for ever: an operation that stays due is called
SpecConverge ==
    /\ InitConverge
    /\ [][NextConverge]_vars
    /\ WF_vars(StackObserve)
    /\ WF_vars(StackCreate)
    /\ WF_vars(StackUpdate)

(* ------------------- the diff functions on their own ------------------ *)

SeqsUpTo(S, n) == UNION {[1..k -> S] : k \in 0..n}

Images == {"nginx:1.21", "nginx:1.20"}

\* declared side of isUpToDate
DiffSpecs ==
    {[Image |-> im, Name |-> None, Environment |-> env, Labels |-> lb, Ports |-> <<WebPort>>,
      RestartPolicy |-> rp[1], MaximumRetryCount |-> rp[2], Privileged |-> pv,
      StartOnCreate |-> None, HealthCheck |-> None] :
        im \in Images,
        env \in {<<>>, <<LiteralEnv(Str("A"), Str("1"))>>},
        lb \in {None, Some([app |-> "web"])},
        rp \in {<<None, None>>, <<Some("always"), None>>,
                <<Some("on-failure"), None>>, <<Some("on-failure"), Some(3)>>},
        pv \in {None, Some(TRUE), Some(FALSE)}}

Statuses == {"running", "exited"}

HealthStatuses == {"healthy", "unhealthy"}

ObservedStates ==
    {None} \cup {Some([Status |-> st, Running |-> st = "running", Health |-> h]) :
                    st \in Statuses, h \in {None} \cup {Some(x) : x \in HealthStatuses}}

ObservedHostConfigs ==
    {None} \cup {Some([RestartPolicy |-> [Name |-> rp[1], MaximumRetryCount |-> rp[2]],
                       Privileged |-> pv, PortBindings |-> <<>>]) :
                    rp \in {<<"always", 0>>, <<"on-failure", 0>>, <<"on-failure", 3>>},
                    pv \in BOOLEAN}

\* observed side of isUpToDate: an inspect response
DiffInfos ==
    {[ID |-> "id1", Name |-> "web",
      Config |-> [Image |-> im, Env |-> env, Labels |-> lb],
      HostConfig |-> hc, State |-> st, Ports |-> <<>>] :
        im \in Images,
        env \in {<<>>, <<Str("A") \o <<"=", "1">>>>, <<Str("A") \o <<"=", "2">>>>},
        lb \in {Some([app |-> "web"]), Some([app |-> "db"])},
        hc \in ObservedHostConfigs,
        st \in ObservedStates}

EnvNames == {Str("A"), Str("B")}

EnvValues == {<<"1">>, <<"1", "=", "2">>}

\* declared environment entries: literal, by reference, and with neither
DeclaredEnvVars ==
    {LiteralEnv(n, v) : n \in EnvNames, v \in EnvValues}
    \cup {ConfigMapEnv(Str("A")), [Name |-> Str("A"), Value |-> None, ValueFrom |-> None]}

\* observed environment entries: "NAME=value", and a bare "NAME"
ObservedEnvStrings ==
    {<<"A", "=", "1">>, <<"A", "=", "1", "=", "2">>, <<"B", "=", "1">>, <<"A">>}

LabelMaps ==
    {None} \cup {Some(m) : m \in UNION {[ks -> {"web", "db"}] : ks \in SUBSET {"app", "tier"}}}

\* observed label maps of a volume or network
ObservedLabelMaps ==
    {None, Some([app |-> "web"]), Some([app |-> "db"]),
     Some([k \in {"app", "tier"} |-> IF k = "app" THEN "web" ELSE "db"])}

\* observed side of the volume diff: a volume as the engine reports it
ObservedVolumes ==
    {[kind |-> "volume", Name |-> "data", Driver |-> dr, Labels |-> lb] :
        dr \in {"local", "nfs"}, lb \in ObservedLabelMaps}

\* observed side of the network diff: a network inspect response
ObservedNetworks ==
    {[kind |-> "network", ID |-> "id1", Name |-> "backend", Driver |-> dr, Internal |-> it,
      Attachable |-> FALSE, EnableIPv6 |-> FALSE, Labels |-> lb] :
        dr \in {"bridge", "overlay"}, it \in BOOLEAN, lb \in ObservedLabelMaps}

\* a declared named volume of a stack document
NamedVolume(key, driver) ==
    [Key |-> key, Driver |-> driver, DriverOpts |-> <<>>, Labels |-> <<>>]

\* documents given to the decomposer: one to three services, up to two
\* declared named volumes, and a document that does not parse
ParseInputs ==
    {[wellFormed |-> TRUE, services |-> sv, volumes |-> vs] :
        sv \in {<<Web>>, <<Web, Db>>, <<Api, Web, Db>>},
        vs \in {<<>>, <<NamedVolume(<<"db", "_", "data">>, "local")>>,
                <<NamedVolume(<<"db", "_", "data">>, "local"),
                  NamedVolume(<<"cache">>, "")>>}}
    \cup {MalformedDocument}

\* size limits of an ephemeral mount: well-formed ones, an unrecognized
\* suffix, a suffix without a number, no number at all, a fraction
SizeLimits ==
    {<<"1", "G", "i">>, <<"6", "4", "M", "i">>, <<"5", "1", "2">>,
     <<"6", "4", "M", "B">>, <<"M", "i">>, <<"a", "b", "c">>, <<"1", ".", "5", "G", "i">>}

RestartPolicies == {"no", "always", "unless-stopped", "on-failure"}

\* declared specs given to the two request builders
BuildSpecs ==
    {[Image |-> "nginx:1.21", Name |-> Some(<<"web">>), Environment |-> <<>>,
      Labels |-> None, Ports |-> <<WebPort>>, Volumes |-> vs,
      RestartPolicy |-> rp, MaximumRetryCount |-> mrc,
      Privileged |-> None, StartOnCreate |-> None, HealthCheck |-> None] :
        vs  \in {<<>>} \cup {<<EmptyDirMount(Some(sl))>> : sl \in SizeLimits},
        rp  \in {None} \cup {Some(x) : x \in RestartPolicies},
        mrc \in {None, Some(0), Some(3)}}

DiffInputs ==
    {[fn |-> "isUpToDate", spec |-> s, info |-> i] : s \in DiffSpecs, i \in DiffInfos}
    \cup {[fn |-> f, spec |-> s] :
            f \in {"BuildContainerConfig", "convertContainerSpec"}, s \in BuildSpecs}
    \cup UNION {{[fn |-> "ParseCompose", projectName |-> pn, content |-> c,
                   order |-> o, volumeOrder |-> vo] :
                     pn \in {<<"myapp">>, <<"test", "-", "volumes">>},
                     o \in RangeOrders(Len(c.services)),
                     vo \in RangeOrders(Len(c.volumes))} : c \in ParseInputs}
    \cup {[fn |-> "volumeIsUpToDate", cr |-> NewRecord("volume", s), vol |-> v] :
            s \in VolumeSpecs, v \in ObservedVolumes}
    \cup {[fn |-> "networkIsUpToDate", cr |-> NewRecord("network", s), netInspect |-> n] :
            s \in NetworkSpecs, n \in ObservedNetworks}
    \cup {[fn |-> "isEnvironmentUpToDate", expectedEnv |-> e, actualEnv |-> a] :
            e \in SeqsUpTo(DeclaredEnvVars, MaxEnv), a \in SeqsUpTo(ObservedEnvStrings, MaxEnv)}
    \cup {[fn |-> "isLabelsUpToDate", expectedLabels |-> e, actualLabels |-> a] :
            e \in LabelMaps, a \in LabelMaps}

ApplyIsUpToDate ==
    /\ diffIn.fn = "isUpToDate"
    /\ diffOut = NoDiff
    /\ diffOut' = [fn |-> diffIn.fn, upToDate |-> isUpToDate(diffIn.spec, diffIn.info)]
    /\ UNCHANGED <<engineFaults, records, stacks, cr, engine, nextId, last, prev, diffIn>>

ApplyIsEnvironmentUpToDate ==
    /\ diffIn.fn = "isEnvironmentUpToDate"
    /\ diffOut = NoDiff
    /\ diffOut' = [fn |-> diffIn.fn,
                   upToDate |-> isEnvironmentUpToDate(diffIn.expectedEnv, diffIn.actualEnv)]
    /\ UNCHANGED <<engineFaults, records, stacks, cr, engine, nextId, last, prev, diffIn>>

ApplyIsLabelsUpToDate ==
    /\ diffIn.fn = "isLabelsUpToDate"
    /\ diffOut = NoDiff
    /\ diffOut' = [fn |-> diffIn.fn,
                   upToDate |-> isLabelsUpToDate(diffIn.expectedLabels, diffIn.actualLabels)]
    /\ UNCHANGED <<engineFaults, records, stacks, cr, engine, nextId, last, prev, diffIn>>

ApplyVolumeIsUpToDate ==
    /\ diffIn.fn = "volumeIsUpToDate"
    /\ diffOut = NoDiff
    /\ diffOut' = [fn |-> diffIn.fn, upToDate |-> volumeIsUpToDate(diffIn.cr, diffIn.vol)]
    /\ UNCHANGED <<engineFaults, records, stacks, cr, engine, nextId, last, prev, diffIn>>

ApplyNetworkIsUpToDate ==
    /\ diffIn.fn = "networkIsUpToDate"
    /\ diffOut = NoDiff
    /\ diffOut' = [fn |-> diffIn.fn,
                   upToDate |-> networkIsUpToDate(diffIn.cr, diffIn.netInspect)]
    /\ UNCHANGED <<engineFaults, records, stacks, cr, engine, nextId, last, prev, diffIn>>

ApplyParseCompose ==
    /\ diffIn.fn = "ParseCompose"
    /\ diffOut = NoDiff
    /\ diffOut' = [fn |-> diffIn.fn,
                   result |-> ParseCompose(diffIn.projectName, diffIn.content,
                                           diffIn.order, diffIn.volumeOrder)]
    /\ UNCHANGED <<engineFaults, records, stacks, cr, engine, nextId, last, prev, diffIn>>

ApplyBuildContainerConfig ==
    /\ diffIn.fn = "BuildContainerConfig"
    /\ diffOut = NoDiff
    /\ diffOut' = [fn |-> diffIn.fn, result |-> BuildContainerConfig(diffIn.spec)]
    /\ UNCHANGED <<engineFaults, records, stacks, cr, engine, nextId, last, prev, diffIn>>

ApplyConvertContainerSpec ==
    /\ diffIn.fn = "convertContainerSpec"
    /\ diffOut = NoDiff
    /\ diffOut' = [fn |-> diffIn.fn, result |-> convertContainerSpec(diffIn.spec, <<"myapp">>)]
    /\ UNCHANGED <<engineFaults, records, stacks, cr, engine, nextId, last, prev, diffIn>>

InitDiff ==
    /\ cr = NewRecord("container", CHOOSE s \in ContainerSpecs : TRUE)
    /\ engine = <<>>
    /\ nextId = 0
    /\ last = [op |-> "Init", marker |-> "", present |-> FALSE, err |-> NoErr,
               exists |-> FALSE, upToDate |-> FALSE, calls |-> <<>>]
    /\ prev = [created |-> FALSE, started |-> FALSE]
    /\ diffIn \in DiffInputs
    /\ diffOut = NoDiff
    /\ stacks = <<>>
    /\ records = <<>>
    /\ engineFaults = TRUE

NextDiff ==
    \/ ApplyIsUpToDate
    \/ ApplyIsEnvironmentUpToDate
    \/ ApplyIsLabelsUpToDate
    \/ ApplyVolumeIsUpToDate
    \/ ApplyNetworkIsUpToDate
    \/ ApplyParseCompose
    \/ ApplyBuildContainerConfig
    \/ ApplyConvertContainerSpec

SpecDiff == InitDiff /\ [][NextDiff]_vars

(* ====================================================================== *)
(*                              properties                                *)
(* ====================================================================== *)

\* C1: an Observe that immediately follows a successful create-and-start, and
\* whose inspect call succeeds against the engine that echoes the configuration
\* it was given, reports ResourceExists and ResourceUpToDate.
C1_ObserveAfterCreateUpToDate ==
    (/\ cr.kind = "container"
     /\ last.op = "Observe"
     /\ prev.created /\ prev.started
     /\ last.calls # <<>> /\ last.calls[1].res = NoErr)
    => (last.err = NoErr /\ last.exists /\ last.upToDate)

\* C2: when the create call succeeds and the start call fails, Create returns
\* an error and the record carries the created object's ID as its marker.
C2_StartFailureKeepsMarker ==
    (/\ cr.kind = "container"
     /\ last.op = "Create"
     /\ Len(last.calls) = 2
     /\ last.calls[1].call = "ContainerCreate" /\ last.calls[1].res = NoErr
     /\ last.calls[2].call = "ContainerStart" /\ last.calls[2].res # NoErr)
    => (last.err # NoErr /\ GetExternalName(cr) = last.calls[1].id)

\* C3: at most one engine container created for the record exists at any time
\* (every container of the engine was created by a Create of the record).
C3_AtMostOneContainer ==
    cr.kind = "container"
    => Cardinality({id \in DOMAIN engine : engine[id].kind = "container"}) <= 1

C5_UpdateNotImplemented ==
    [][(cr.kind = "container" /\ last'.op = "Update")
       => /\ Contains(last'.err, <<"not", "implemented">>)
          /\ last'.calls = <<>>
          /\ cr'.annotations = cr.annotations
          /\ engine' = engine]_vars

\* C5 witness: Update ran on a record whose marker names a present container
C5_Witness ==
    /\ cr.kind = "container"
    /\ last.op = "Update"
    /\ last.marker # "" /\ last.present

C7_StopBeforeRemove ==
    (cr.kind = "container" /\ last.op = "Delete" /\ last.marker # "") =>
        LET stopRes  == last.calls[1].res
            notFound == stopRes \in NotFoundErrs("container", last.marker)
        IN  /\ Len(last.calls) >= 1
            /\ last.calls[1].call = "ContainerStop"
            /\ last.calls[1].id = last.marker
            /\ last.calls[1].arg = <<10>>
            /\ (stopRes # NoErr /\ ~notFound)
                  => /\ last.err # NoErr
                     /\ Len(last.calls) = 1
                     /\ last.present => Present(engine, "container", last.marker)
            /\ (stopRes = NoErr \/ notFound)
                  => /\ Len(last.calls) = 2
                     /\ last.calls[2].call = "ContainerRemove"
                     /\ last.calls[2].id = last.marker

\* C7 witness: stop failed on a present container and Delete gave up
C7_Witness ==
    /\ cr.kind = "container"
    /\ last.op = "Delete"
    /\ last.marker # "" /\ last.present
    /\ last.calls[1].res \in TransientErrs
    /\ last.err # NoErr
    /\ Present(engine, "container", last.marker)

\* C8: the container diff answers "not up to date" whenever the declared and
\* the observed image strings differ, whatever the other fields hold.
C8_ImageMismatchNotUpToDate ==
    (diffOut.fn = "isUpToDate" /\ diffIn.info.Config.Image # diffIn.spec.Image)
    => ~diffOut.upToDate

\* C8 witness: the image is the only difference and the verdict is negative
C8_Witness ==
    /\ diffOut.fn = "isUpToDate"
    /\ diffIn.spec.Image = "nginx:1.21" /\ diffIn.info.Config.Image = "nginx:1.20"
    /\ diffIn.spec.RestartPolicy = Some("on-failure")
    /\ diffIn.info.HostConfig # None
    /\ Deref(diffIn.info.HostConfig).RestartPolicy.Name = "on-failure"
    /\ diffIn.spec.Environment # <<>> /\ diffIn.info.Config.Env = <<<<"A", "=", "1">>>>
    /\ diffIn.spec.Labels = diffIn.info.Config.Labels
    /\ diffIn.spec.Privileged = Some(Deref(diffIn.info.HostConfig).Privileged)
    /\ diffIn.info.State # None /\ Deref(diffIn.info.State).Health = Some("healthy")
    /\ ~diffOut.upToDate

\* C9: the environment check and the label check pass exactly when every
\* declared literal name/value pair occurs, with that value, among the observed
\* entries.
C9_SupersetChecks ==
    /\ diffOut.fn = "isEnvironmentUpToDate" =>
          (diffOut.upToDate <=>
              \A i \in DOMAIN diffIn.expectedEnv :
                  diffIn.expectedEnv[i].Value # None =>
                      \E j \in DOMAIN diffIn.actualEnv :
                          diffIn.actualEnv[j] = diffIn.expectedEnv[i].Name \o <<"=">>
                                                   \o Deref(diffIn.expectedEnv[i].Value))
    /\ diffOut.fn = "isLabelsUpToDate" =>
          (diffOut.upToDate <=>
              \A k \in DOMAIN MapOf(diffIn.expectedLabels) :
                  /\ k \in DOMAIN MapOf(diffIn.actualLabels)
                  /\ MapOf(diffIn.actualLabels)[k] = MapOf(diffIn.expectedLabels)[k])

\* C10: the container diff verdict is the same for every lifecycle status of
\* the observed object and for every declared and observed port binding.
C10_VerdictIgnoresStatusAndPorts ==
    diffOut.fn = "isUpToDate" =>
        \A st \in Statuses, declared \in {<<>>, <<WebPort>>},
           bound \in {<<>>, buildPortConfiguration(<<WebPort>>).portBindings} :
            LET spec2 == [diffIn.spec EXCEPT !.Ports = declared]
                state2 == IF diffIn.info.State = None THEN None
                          ELSE Some([Deref(diffIn.info.State) EXCEPT
                                        !.Status = st, !.Running = (st = "running")])
                host2 == IF diffIn.info.HostConfig = None THEN None
                         ELSE Some([Deref(diffIn.info.HostConfig) EXCEPT !.PortBindings = bound])
                info2 == [diffIn.info EXCEPT !.State = state2, !.HostConfig = host2,
                                             !.Ports = bound]
            IN  isUpToDate(spec2, info2) = diffOut.upToDate

\* C10 witness: an exited container without the declared port binding is
\* reported up to date
C10_Witness ==
    /\ diffOut.fn = "isUpToDate"
    /\ diffIn.spec.Ports # <<>> /\ diffIn.info.Ports = <<>>
    /\ diffIn.info.State # None /\ Deref(diffIn.info.State).Status = "exited"
    /\ diffOut.upToDate

\* C11: the container diff answers "not up to date" whenever the observed
\* health status is "unhealthy", also when image, restart policy, environment,
\* labels and privileged flag all match the spec.
C11_UnhealthyNotUpToDate ==
    (/\ diffOut.fn = "isUpToDate"
     /\ diffIn.info.State # None
     /\ Deref(diffIn.info.State).Health = Some("unhealthy"))
    => ~diffOut.upToDate

\* C11 witness: every compared field matches, the container is running and
\* unhealthy, and the verdict is negative
C11_Witness ==
    /\ diffOut.fn = "isUpToDate"
    /\ diffIn.info.Config.Image = diffIn.spec.Image
    /\ diffIn.spec.RestartPolicy = Some("on-failure")
    /\ diffIn.spec.MaximumRetryCount = Some(3)
    /\ diffIn.info.HostConfig # None
    /\ Deref(diffIn.info.HostConfig).RestartPolicy
          = [Name |-> "on-failure", MaximumRetryCount |-> 3]
    /\ diffIn.spec.Environment # <<>> /\ diffIn.info.Config.Env = <<<<"A", "=", "1">>>>
    /\ diffIn.spec.Labels # None /\ diffIn.spec.Labels = diffIn.info.Config.Labels
    /\ diffIn.spec.Privileged = Some(Deref(diffIn.info.HostConfig).Privileged)
    /\ diffIn.info.State # None
    /\ Deref(diffIn.info.State).Running
    /\ Deref(diffIn.info.State).Health = Some("unhealthy")
    /\ ~diffOut.upToDate

\* C12: the volume diff and the network diff answer "up to date" whenever the
\* observed driver equals the declared driver (with its default) and every
\* declared label occurs, with its value, among the observed labels; observed
\* labels that are not declared do not matter.
C12_DriverAndLabelSuperset ==
    LET superset(declared, observed) ==
            \A k \in DOMAIN MapOf(declared) :
                k \in DOMAIN MapOf(observed) /\ MapOf(observed)[k] = MapOf(declared)[k]
    IN  /\ diffOut.fn = "volumeIsUpToDate" =>
              ((/\ diffIn.vol.Driver = getStringValue(diffIn.cr.spec.Driver, "local")
                /\ superset(diffIn.cr.spec.Labels, diffIn.vol.Labels))
               => diffOut.upToDate)
        /\ diffOut.fn = "networkIsUpToDate" =>
              ((/\ diffIn.netInspect.Driver = getStringValue(diffIn.cr.spec.Driver, "bridge")
                /\ diffIn.netInspect.Internal = getBoolValue(diffIn.cr.spec.Internal, FALSE)
                /\ superset(diffIn.cr.spec.Labels, diffIn.netInspect.Labels))
               => diffOut.upToDate)

\* C13: a stack Observe inspects one container per declared service; the
\* condition is "available" exactly when every inspect call succeeded and every
\* container is running; if any inspect call failed the condition is
\* "unavailable" and Observe reports the stack as not existing; if every
\* container exists and one is not running the condition is "creating" and
\* Observe reports not up to date.
C13_StackStatusAggregation ==
    (last.op = "Observe" /\ last.err = NoErr) =>
        LET r          == stacks[last.rec]
            status(c)  == engine[CHOOSE id \in FindByName(engine, c.id) : TRUE].State.Status
            missing    == {i \in DOMAIN last.calls : last.calls[i].res # NoErr}
            notRunning == {i \in DOMAIN last.calls \ missing :
                              status(last.calls[i]) # "running"}
        IN  /\ Len(last.calls) = Len(DeclaredServices(r))
            /\ r.condition = <<"Available">> <=> (missing = {} /\ notRunning = {})
            /\ missing # {} => (r.condition = <<"Unavailable">> /\ ~last.exists)
            /\ (missing = {} /\ notRunning # {})
                  => (r.condition = <<"Creating">> /\ last.exists /\ ~last.upToDate)

\* C13 witness: both containers of the two-service stack exist, one was never
\* started, and Observe reports the stack as still converging
C13_Witness ==
    /\ last.op = "Observe" /\ last.err = NoErr
    /\ Len(last.calls) = 2
    /\ \A i \in DOMAIN last.calls : last.calls[i].res = NoErr
    /\ \E id \in DOMAIN engine : engine[id].State.Status = "created"
    /\ \E id \in DOMAIN engine : engine[id].State.Status = "running"
    /\ stacks[last.rec].condition = <<"Creating">>
    /\ last.exists /\ ~last.upToDate

\* C14: the ContainerCreate calls of one stack Create are issued in the order
\* in which the document declares their services.
C14_CreateInDeclaredOrder ==
    last.op = "Create" =>
        LET r           == stacks[last.rec]
            projectName == getProjectName(r)
            services    == DeclaredServices(r)
            declaredAt(c) == CHOOSE k \in DOMAIN services :
                                c.arg[1] = getContainerName(
                                    projectName, convertService(projectName, services[k]).name)
            creates     == {i \in DOMAIN last.calls : last.calls[i].call = "ContainerCreate"}
        IN  \A p, q \in creates :
                p < q => declaredAt(last.calls[p]) < declaredAt(last.calls[q])

\* C15: when a create or start call fails during a stack Create, Create returns
\* an error, the failed call is the last engine call of the invocation, no stop
\* or remove call is made, and the containers the invocation created are still
\* in the engine.
C15_FirstFailureAborts ==
    last.op = "Create" =>
        \A i \in DOMAIN last.calls :
            (/\ last.calls[i].call \in {"ContainerCreate", "ContainerStart"}
             /\ last.calls[i].res # NoErr)
            => /\ last.err # NoErr
               /\ i = Len(last.calls)
               /\ \A j \in DOMAIN last.calls :
                      /\ last.calls[j].call \notin {"ContainerStop", "ContainerRemove"}
                      /\ (last.calls[j].call = "ContainerCreate" /\ last.calls[j].res = NoErr)
                            => last.calls[j].id \in DOMAIN engine

\* C15 witness: the first service was created and started, the create call of
\* the second failed, and the first container is still there
C15_Witness ==
    /\ last.op = "Create"
    /\ Len(last.calls) = 5
    /\ last.calls[2].call = "ContainerCreate" /\ last.calls[2].res = NoErr
    /\ last.calls[3].call = "ContainerStart" /\ last.calls[3].res = NoErr
    /\ last.calls[5].call = "ContainerCreate" /\ last.calls[5].res # NoErr
    /\ last.err # NoErr
    /\ last.calls[2].id \in DOMAIN engine
    /\ Len(DeclaredServices(stacks[last.rec])) = 2

\* C16: a stack Create issues no create call under a name for which its
\* inspect call succeeded; when it returns without error every declared
\* service has its container; and the engine never holds two containers of
\* the same name.
C16_CreateReentrant ==
    /\ last.op = "Create" =>
          /\ \A i, j \in DOMAIN last.calls :
                 (last.calls[i].call = "ContainerInspect" /\ last.calls[i].res = NoErr)
                 => ~(/\ last.calls[j].call = "ContainerCreate"
                      /\ last.calls[j].arg[1] = last.calls[i].id)
          /\ last.err = NoErr =>
                 \A i \in DOMAIN last.calls :
                     last.calls[i].call = "ContainerInspect"
                     => FindByName(engine, last.calls[i].id) # {}
    /\ \A id1, id2 \in DOMAIN engine :
          engine[id1].Name = engine[id2].Name => id1 = id2

\* C16 witness: a Create that found one service's container in place and
\* created only the other one
C16_Witness ==
    /\ last.op = "Create" /\ last.err = NoErr
    /\ last.named # {}
    /\ \E i \in DOMAIN last.calls :
          /\ last.calls[i].call = "ContainerInspect" /\ last.calls[i].res = NoErr
          /\ last.calls[i].id \in last.named
    /\ Cardinality({i \in DOMAIN last.calls : last.calls[i].call = "ContainerCreate"}) = 1
    /\ Cardinality(DOMAIN engine) = 2

\* C17: the container name that stack Create passes to the create call and
\* that stack Create and stack Observe pass to the inspect call is
\* <project>_<service>_1 for a declared service.
C17_ContainerNameConvention ==
    last.op \in {"Create", "Observe"} =>
        LET r           == stacks[last.rec]
            projectName == getProjectName(r)
            services    == DeclaredServices(r)
            expected    == {projectName \o <<"_">> \o services[k].Name \o <<"_", "1">> :
                               k \in DOMAIN services}
        IN  \A i \in DOMAIN last.calls :
                /\ last.calls[i].call = "ContainerInspect" => last.calls[i].id \in expected
                /\ last.calls[i].call = "ContainerCreate" => last.calls[i].arg[1] \in expected

\* C18: every container a stack Create has created carries the label
\* com.docker.compose.project with the stack's project name and the label
\* com.docker.compose.service with the name of one of its services, and is
\* among the containers the stack's delete-by-selector lookup lists.
C18_CreatedContainersLabelled ==
    last.op = "Create" =>
        LET r           == stacks[last.rec]
            projectName == getProjectName(r)
            services    == DeclaredServices(r)
            listed      == EngineContainerList(engine, LabelFilter(LabelComposeProject, projectName))
        IN  \A i \in DOMAIN last.calls :
                (last.calls[i].call = "ContainerCreate" /\ last.calls[i].res = NoErr) =>
                    LET labels == MapOf(engine[last.calls[i].id].Config.Labels)
                    IN  /\ LabelComposeProject \in DOMAIN labels
                        /\ labels[LabelComposeProject] = projectName
                        /\ LabelComposeService \in DOMAIN labels
                        /\ \E k \in DOMAIN services :
                               labels[LabelComposeService] = services[k].Name
                        /\ \E k \in DOMAIN listed : listed[k] = last.calls[i].id

\* C18 witness: Create made the container of a service whose document declares
\* a project label of its own, and the container carries the stack's project
C18_Witness ==
    /\ last.op = "Create"
    /\ \E i \in DOMAIN last.calls :
          /\ last.calls[i].call = "ContainerCreate" /\ last.calls[i].res = NoErr
          /\ engine[last.calls[i].id].Config.Image = "postgres:15"
          /\ MapOf(engine[last.calls[i].id].Config.Labels)[LabelComposeProject] = <<"myapp">>
          /\ MapOf(engine[last.calls[i].id].Config.Labels)[LabelComposeService] = <<"db">>

\* C19: a stack Delete lists the containers labelled
\* com.docker.compose.project=<project>, stops and removes only those, leaves
\* every other container as it was, and when every engine call succeeds none
\* of the labelled containers remains, whichever stack record created them.
C19_DeleteBySelector ==
    [][last'.op = "Delete" =>
          LET projectName == getProjectName(stacks[last'.rec])
              labelled    == {id \in DOMAIN engine :
                                 /\ LabelComposeProject \in DOMAIN MapOf(engine[id].Config.Labels)
                                 /\ MapOf(engine[id].Config.Labels)[LabelComposeProject]
                                       = projectName}
              calls       == last'.calls
          IN  /\ calls[1].call = "ContainerList"
              /\ calls[1].arg = <<LabelComposeProject, "=">> \o projectName
              /\ \A i \in 2..Len(calls) :
                     /\ calls[i].call \in {"ContainerStop", "ContainerRemove"}
                     /\ calls[i].id \in labelled
              /\ \A id \in DOMAIN engine \ labelled :
                     id \in DOMAIN engine' /\ engine'[id] = engine[id]
              /\ (\A i \in DOMAIN calls : calls[i].res = NoErr)
                    => /\ last'.err = NoErr
                       /\ \A id \in labelled :
                              /\ id \notin DOMAIN engine'
                              /\ \E i \in 2..(Len(calls) - 1) :
                                     /\ calls[i] = Call("ContainerStop", id, <<StopTimeout>>, NoErr)
                                     /\ calls[i + 1].call = "ContainerRemove"
                                     /\ calls[i + 1].id = id]_vars

\* C19 witness: the Delete of stack myapp, which has one service, removed two
\* containers: its own and the one of stack shop, whose project name is also
\* myapp
C19_Witness ==
    /\ last.op = "Delete" /\ last.rec = "myapp" /\ last.err = NoErr
    /\ "shop" \in DOMAIN stacks
    /\ getProjectName(stacks["shop"]) = getProjectName(stacks["myapp"])
    /\ Len(DeclaredServices(stacks["myapp"])) = 1
    /\ Cardinality(last.labelled) = 2
    /\ Len(last.calls) = 5
    /\ engine = <<>>

\* C20: a stack Update returns a non-nil error, whatever the stack record
C20_StackUpdateReturnsError ==
    last.op = "Update" => last.err # NoErr

\* C21: when an inspect call of a stack Observe fails, with not-found or with
\* any other engine error, Observe returns no error, reports the stack as
\* neither existing nor up to date, and records the service as "pending".
C21_InspectFailureObservation ==
    (last.op = "Observe" /\ \E i \in DOMAIN last.calls : last.calls[i].res # NoErr) =>
        LET r           == stacks[last.rec]
            projectName == getProjectName(r)
        IN  /\ last.err = NoErr
            /\ ~last.exists
            /\ ~last.upToDate
            /\ \A i \in DOMAIN last.calls :
                  last.calls[i].res # NoErr =>
                     \E nm \in DOMAIN r.atProvider.Services :
                        /\ getContainerName(projectName, nm) = last.calls[i].id
                        /\ r.atProvider.Services[nm].State = "pending"
                        /\ r.atProvider.Services[nm].ContainerID = None

\* C22: decomposing a document that declares N services under project name P
\* yields exactly N container specs, one per service and named P-<service>,
\* and exactly one volume definition named P_<volume> for every declared named
\* volume.
C22_DecompositionCounts ==
    (diffOut # NoDiff /\ diffOut.fn = "ParseCompose" /\ diffIn.content.wellFormed) =>
        LET P          == diffIn.projectName
            services   == diffIn.content.services
            volumes    == diffIn.content.volumes
            containers == diffOut.result.Containers
            defs       == diffOut.result.Volumes
        IN  /\ diffOut.result.err = NoErr
            /\ Len(containers) = Len(services)
            /\ \A i \in DOMAIN services :
                  Cardinality({j \in DOMAIN containers :
                                  /\ containers[j].name = P \o <<"-">> \o services[i].Name
                                  /\ containers[j].spec.Name = Some(services[i].Name)
                                  /\ containers[j].spec.Image = services[i].Image}) = 1
            /\ Len(defs) = Len(volumes)
            /\ \A i \in DOMAIN volumes :
                  Cardinality({j \in DOMAIN defs :
                                  defs[j].Name = P \o <<"_">> \o volumes[i].Key}) = 1

\* C22 witness: three services and two named volumes were decomposed, and
\* neither came out in declared order
C22_Witness ==
    /\ diffOut # NoDiff /\ diffOut.fn = "ParseCompose"
    /\ Len(diffOut.result.Containers) = 3
    /\ Len(diffOut.result.Volumes) = 2
    /\ diffOut.result.Containers[1].name # diffIn.projectName \o <<"-">> \o Api.Name
    /\ diffOut.result.Volumes[1].Name = diffIn.projectName \o <<"_", "cache">>

\* C23: container Create on a spec whose health-check block has an empty test
\* command returns an error, issues no engine call and leaves the
\* external-name annotation unset.
C23_EmptyHealthCheckTestFailsCreate ==
    (/\ last.op = "Create" /\ cr.kind = "container"
     /\ cr.spec.HealthCheck # None
     /\ Len(Deref(cr.spec.HealthCheck).Test) = 0) =>
        /\ last.err # NoErr
        /\ last.calls = <<>>
        /\ GetExternalName(cr) = ""
        /\ engine = <<>>

\* C23 witness: Create ran on such a spec, whose other parts build, and failed
\* in the health-check build
C23_Witness ==
    /\ last.op = "Create" /\ cr.kind = "container"
    /\ cr.spec.HealthCheck = Some([Test |-> <<>>])
    /\ BuildContainerConfig([cr.spec EXCEPT !.HealthCheck = None]).err = NoErr
    /\ last.err = <<"cannot", "build", "container", "configuration">>
                  \o <<":">> \o <<"cannot", "build", "health", "check", "configuration">>
                  \o <<":">> \o <<"health", "check", "test", "command", "is", "required">>

\* C24: container Create on a spec with an ephemeral mount whose size limit
\* does not parse returns an error and issues no ContainerCreate call, so no
\* request with a zero or partial size reaches the engine.
C24_MalformedSizeLimitFailsCreate ==
    (/\ last.op = "Create" /\ cr.kind = "container"
     /\ \E i \in DOMAIN cr.spec.Volumes :
           LET emptyDir == cr.spec.Volumes[i].VolumeSource.EmptyDir
           IN  /\ emptyDir # None
               /\ Deref(emptyDir).SizeLimit # None
               /\ parseByteSize(Deref(Deref(emptyDir).SizeLimit)).err # NoErr) =>
        /\ last.err # NoErr
        /\ \A j \in DOMAIN last.calls : last.calls[j].call # "ContainerCreate"

\* C25: in the creation request built for a container the restart policy
\* carries the declared policy name, and its maximum retry count is the
\* spec's only when that name is on-failure; for every other policy the
\* request's retry count is 0 whatever the spec's retry-count field holds.
C25_RetryCountOnlyOnFailure ==
    (/\ diffOut # NoDiff
     /\ diffOut.fn \in {"BuildContainerConfig", "convertContainerSpec"}
     /\ diffOut.result.err = NoErr) =>
        LET spec   == diffIn.spec
            policy == diffOut.result.hostConfig.RestartPolicy
        IN  IF spec.RestartPolicy # None /\ Deref(spec.RestartPolicy) = "on-failure"
            THEN /\ policy.Name = "on-failure"
                 /\ policy.MaximumRetryCount =
                       IF spec.MaximumRetryCount # None
                       THEN Deref(spec.MaximumRetryCount) ELSE 0
            ELSE /\ policy.Name = IF spec.RestartPolicy # None
                                  THEN Deref(spec.RestartPolicy) ELSE ""
                 /\ policy.MaximumRetryCount = 0

\* C26: whatever operation runs on one container record, a record with a
\* different external-name annotation keeps its annotation and its observed
\* state, and the engine object that annotation names is neither stopped nor
\* removed nor otherwise changed.
C26_RecordsIndependent ==
    [][\A k \in DOMAIN records : \A o \in DOMAIN records \ {k} :
          (/\ last'.rec = k
           /\ GetExternalName(records[o]) # GetExternalName(records[k])) =>
              LET marker == GetExternalName(records[o])
              IN  /\ records'[o] = records[o]
                  /\ Present(engine, "container", marker) =>
                        /\ Present(engine', "container", marker)
                        /\ engine'[marker] = engine[marker]]_vars

\* C26 witness: both records are bound to running containers of their own,
\* and one record was then deleted with the other's container left running
C26_Witness ==
    /\ last.op = "Delete" /\ last.err = NoErr /\ Len(last.calls) = 2
    /\ last.marker # ""
    /\ last.marker \notin DOMAIN engine
    /\ \E o \in DOMAIN records \ {last.rec} :
          /\ GetExternalName(records[o]) \notin {"", last.marker}
          /\ Present(engine, "container", GetExternalName(records[o]))
          /\ engine[GetExternalName(records[o])].State.Running

\* C27: after a container Observe that returns no error, the record's observed
\* state is what this invocation's inspect call answered and nothing else:
\* the fields of the inspect response when the container was found, and no
\* state left by an earlier Observe when the engine answered otherwise.
C27_ObservedStateFresh ==
    (last.op = "Observe" /\ cr.kind = "container" /\ last.err = NoErr) =>
        IF Len(last.calls) = 1 /\ last.calls[1].res = NoErr
        THEN LET info == EngineContainerInspect(engine, last.marker)
             IN  /\ cr.atProvider = [ID    |-> info.ID,
                                     Name  |-> info.Name,
                                     State |-> Deref(info.State),
                                     Image |-> info.Config.Image,
                                     Ports |-> info.Ports]
                 /\ cr.condition = IF Deref(info.State).Running
                                   THEN <<"Available">>
                                   ELSE <<"Unavailable", "Container is",
                                          Deref(info.State).Status>>
        ELSE cr.atProvider = <<>>

\* C28: with the document unchanged, once every engine call succeeds repeated
\* reconcile of a stack reaches an Observe that finds every service running
\* and sets the stack "available", also when an earlier Create created a
\* container whose start call failed.
C28_StackConverges ==
    [](~engineFaults
          => <>(/\ last.op = "Observe" /\ last.rec = "myapp" /\ last.err = NoErr
                /\ last.exists /\ last.upToDate
                /\ stacks["myapp"].condition = <<"Available">>))

C30_MarkerReachesManagedResource ==
    [][/\ (last'.op = "Create" /\ last'.err = NoErr)
             => /\ GetExternalName(cr') # ""
                /\ GetExternalName(records'.mg) = GetExternalName(cr')
       /\ (last.op = "Create" /\ last.err = NoErr /\ last'.op = "Connect")
             => /\ GetExternalName(cr') # ""
                /\ GetExternalName(cr') = GetExternalName(cr)]_vars

====
